---- MODULE Spec2Model ----
(***************************************************************************)
(* Model of the secure file ingestion pipeline of the transcription        *)
(* service (src/transcription_service/app), of the whisper service's       *)
(* endpoint (src/whisper_service/app/main.py) and of the agent service's   *)
(* SOAP endpoint and retrying HTTP client (src/agent_service/app).         *)
(*                                                                         *)
(* Text (str) values are sequences of code points, byte strings (bytes)    *)
(* are sequences of integers 0..255.  Python's 0-based, end-exclusive      *)
(* slices are translated by Slice.                                         *)
(***************************************************************************)
EXTENDS Integers, Sequences, FiniteSets, TLC

VARIABLES
    filename,            \* the uploaded file's name (file.filename)
    fpc,                 \* position in the filename stages
    san,                 \* outcome of sanitize_filename(filename)
    extres,              \* outcome of validate_file_extension(sanitized, ALLOWED_EXTENSIONS)
    file_content,        \* the uploaded payload (bytes)
    expected_extension,  \* the extension validate_audio_content is called with
    cpc,                 \* position in the content stage
    verdict,             \* value returned by validate_audio_content
    rq,                  \* per request of POST /transcribe: the handler's locals and position
    fs,                  \* the temporary directory: token of a path -> file or NoFile
    debug_copies,        \* the files under /tmp/audio_debug
    log_level,           \* config.LOG_LEVEL
    model_loaded,        \* whether the module-level Whisper model is set
    scan_content,        \* the payload detect_malware_patterns is called with
    scan_other,          \* a second payload with the same first 1024 bytes
    scan_result,         \* detect_malware_patterns(scan_content)
    scan_other_result,   \* detect_malware_patterns(scan_other)
    scan_pc,             \* position in the scanner stage
    wrq,                 \* per request of the whisper service: the handler's locals and position
    agent_cached,        \* per request: the _agent of its SoapAgentService is not None
    arq,                 \* the requests of POST /soap/format_note, in the order they arrived
    crq                  \* the request in the retrying transport: attempts and outcome

\* the variables of the pure validation stages
pvars == <<filename, fpc, san, extres, file_content, expected_extension, cpc, verdict>>

\* the variables of the request handler
hvars == <<rq, fs, debug_copies, log_level, model_loaded>>

\* the variables of the scanner stage
svars == <<scan_content, scan_other, scan_result, scan_other_result, scan_pc>>

\* the variables of the SOAP agent service
avars == <<agent_cached, arq>>

\* the variables outside the transcription service's pipeline
xvars == <<svars, wrq, avars, crq>>

vars == <<filename, fpc, san, extres, file_content, expected_extension, cpc, verdict,
          rq, fs, debug_copies, log_level, model_loaded,
          scan_content, scan_other, scan_result, scan_other_result, scan_pc,
          wrq, agent_cached, arq, crq>>

\* no request is being handled
HandlerIdle ==
    /\ rq = <<>>
    /\ fs = <<>>
    /\ debug_copies = {}
    /\ log_level = "INFO"
    /\ model_loaded = FALSE

\* the scanner has not been called
ScanIdle ==
    /\ scan_content = <<>>
    /\ scan_other = <<>>
    /\ scan_result = [suspicious |-> FALSE, none |-> TRUE, reason |-> ""]
    /\ scan_other_result = [suspicious |-> FALSE, none |-> TRUE, reason |-> ""]
    /\ scan_pc = "idle"

\* the whisper service has no request
WhisperIdle == wrq = <<>>

\* the agent service has no request and no agent
AgentIdle == agent_cached = <<>> /\ arq = <<>>

\* the retrying transport has no request
ClientIdle == crq = <<>>

----------------------------------------------------------------------------
(* Python primitives on str / bytes *)

Min(a, b) == IF a <= b THEN a ELSE b

\* s[a:b] for 0 <= a, 0 <= b (clamped to the length, empty when a >= b)
Slice(s, a, b) ==
    IF a >= Min(b, Len(s)) THEN <<>> ELSE SubSeq(s, a + 1, Min(b, Len(s)))

\* s[a:]
SliceFrom(s, a) == Slice(s, a, Len(s))

\* s.startswith(p)
StartsWith(s, p) == Len(p) <= Len(s) /\ SubSeq(s, 1, Len(p)) = p

\* p in s  (substring test)
Contains(p, s) ==
    \E i \in 0..(Len(s) - Len(p)) : Slice(s, i, i + Len(p)) = p

\* s.rfind(c) for a single character c: last 0-based index, -1 when absent
RFind(s, c) ==
    LET hits == {i \in 1..Len(s) : s[i] = c}
    IN  IF hits = {} THEN -1
        ELSE (CHOOSE i \in hits : \A j \in hits : j <= i) - 1

\* str.lower() of one character standing alone, for every code point: the
\* simple lower-case mappings of the interpreter's Unicode 14.0.0 database,
\* each rule <<lo, hi, step, delta>> sending lo, lo + step, ..., hi to itself
\* plus delta. The lower case may be two code points (U+0130 gives 'i' and
\* U+0307); U+03A3 standing alone gives U+03C3
LowerChar(c) ==
    IF c < 128 THEN (IF c >= 65 /\ c <= 90 THEN <<c + 32>> ELSE <<c>>)
    ELSE IF c = 304 THEN <<105, 775>>
    ELSE LET rules == <<
                <<192, 214, 1, 32>>, <<216, 222, 1, 32>>, <<256, 302, 2, 1>>, <<306, 310, 2, 1>>, <<313, 327, 2, 1>>,
                <<330, 374, 2, 1>>, <<376, 376, 1, -121>>, <<377, 381, 2, 1>>, <<385, 385, 1, 210>>, <<386, 388, 2, 1>>,
                <<390, 390, 1, 206>>, <<391, 391, 1, 1>>, <<393, 394, 1, 205>>, <<395, 395, 1, 1>>, <<398, 398, 1, 79>>,
                <<399, 399, 1, 202>>, <<400, 400, 1, 203>>, <<401, 401, 1, 1>>, <<403, 403, 1, 205>>, <<404, 404, 1, 207>>,
                <<406, 406, 1, 211>>, <<407, 407, 1, 209>>, <<408, 408, 1, 1>>, <<412, 412, 1, 211>>, <<413, 413, 1, 213>>,
                <<415, 415, 1, 214>>, <<416, 420, 2, 1>>, <<422, 422, 1, 218>>, <<423, 423, 1, 1>>, <<425, 425, 1, 218>>,
                <<428, 428, 1, 1>>, <<430, 430, 1, 218>>, <<431, 431, 1, 1>>, <<433, 434, 1, 217>>, <<435, 437, 2, 1>>,
                <<439, 439, 1, 219>>, <<440, 440, 1, 1>>, <<444, 444, 1, 1>>, <<452, 452, 1, 2>>, <<453, 453, 1, 1>>,
                <<455, 455, 1, 2>>, <<456, 456, 1, 1>>, <<458, 458, 1, 2>>, <<459, 475, 2, 1>>, <<478, 494, 2, 1>>,
                <<497, 497, 1, 2>>, <<498, 500, 2, 1>>, <<502, 502, 1, -97>>, <<503, 503, 1, -56>>, <<504, 542, 2, 1>>,
                <<544, 544, 1, -130>>, <<546, 562, 2, 1>>, <<570, 570, 1, 10795>>, <<571, 571, 1, 1>>, <<573, 573, 1, -163>>,
                <<574, 574, 1, 10792>>, <<577, 577, 1, 1>>, <<579, 579, 1, -195>>, <<580, 580, 1, 69>>, <<581, 581, 1, 71>>,
                <<582, 590, 2, 1>>, <<880, 882, 2, 1>>, <<886, 886, 1, 1>>, <<895, 895, 1, 116>>, <<902, 902, 1, 38>>,
                <<904, 906, 1, 37>>, <<908, 908, 1, 64>>, <<910, 911, 1, 63>>, <<913, 929, 1, 32>>, <<931, 939, 1, 32>>,
                <<975, 975, 1, 8>>, <<984, 1006, 2, 1>>, <<1012, 1012, 1, -60>>, <<1015, 1015, 1, 1>>, <<1017, 1017, 1, -7>>,
                <<1018, 1018, 1, 1>>, <<1021, 1023, 1, -130>>, <<1024, 1039, 1, 80>>, <<1040, 1071, 1, 32>>, <<1120, 1152, 2, 1>>,
                <<1162, 1214, 2, 1>>, <<1216, 1216, 1, 15>>, <<1217, 1229, 2, 1>>, <<1232, 1326, 2, 1>>, <<1329, 1366, 1, 48>>,
                <<4256, 4293, 1, 7264>>, <<4295, 4295, 1, 7264>>, <<4301, 4301, 1, 7264>>, <<5024, 5103, 1, 38864>>, <<5104, 5109, 1, 8>>,
                <<7312, 7354, 1, -3008>>, <<7357, 7359, 1, -3008>>, <<7680, 7828, 2, 1>>, <<7838, 7838, 1, -7615>>, <<7840, 7934, 2, 1>>,
                <<7944, 7951, 1, -8>>, <<7960, 7965, 1, -8>>, <<7976, 7983, 1, -8>>, <<7992, 7999, 1, -8>>, <<8008, 8013, 1, -8>>,
                <<8025, 8031, 2, -8>>, <<8040, 8047, 1, -8>>, <<8072, 8079, 1, -8>>, <<8088, 8095, 1, -8>>, <<8104, 8111, 1, -8>>,
                <<8120, 8121, 1, -8>>, <<8122, 8123, 1, -74>>, <<8124, 8124, 1, -9>>, <<8136, 8139, 1, -86>>, <<8140, 8140, 1, -9>>,
                <<8152, 8153, 1, -8>>, <<8154, 8155, 1, -100>>, <<8168, 8169, 1, -8>>, <<8170, 8171, 1, -112>>, <<8172, 8172, 1, -7>>,
                <<8184, 8185, 1, -128>>, <<8186, 8187, 1, -126>>, <<8188, 8188, 1, -9>>, <<8486, 8486, 1, -7517>>, <<8490, 8490, 1, -8383>>,
                <<8491, 8491, 1, -8262>>, <<8498, 8498, 1, 28>>, <<8544, 8559, 1, 16>>, <<8579, 8579, 1, 1>>, <<9398, 9423, 1, 26>>,
                <<11264, 11311, 1, 48>>, <<11360, 11360, 1, 1>>, <<11362, 11362, 1, -10743>>, <<11363, 11363, 1, -3814>>, <<11364, 11364, 1, -10727>>,
                <<11367, 11371, 2, 1>>, <<11373, 11373, 1, -10780>>, <<11374, 11374, 1, -10749>>, <<11375, 11375, 1, -10783>>, <<11376, 11376, 1, -10782>>,
                <<11378, 11378, 1, 1>>, <<11381, 11381, 1, 1>>, <<11390, 11391, 1, -10815>>, <<11392, 11490, 2, 1>>, <<11499, 11501, 2, 1>>,
                <<11506, 11506, 1, 1>>, <<42560, 42604, 2, 1>>, <<42624, 42650, 2, 1>>, <<42786, 42798, 2, 1>>, <<42802, 42862, 2, 1>>,
                <<42873, 42875, 2, 1>>, <<42877, 42877, 1, -35332>>, <<42878, 42886, 2, 1>>, <<42891, 42891, 1, 1>>, <<42893, 42893, 1, -42280>>,
                <<42896, 42898, 2, 1>>, <<42902, 42920, 2, 1>>, <<42922, 42922, 1, -42308>>, <<42923, 42923, 1, -42319>>, <<42924, 42924, 1, -42315>>,
                <<42925, 42925, 1, -42305>>, <<42926, 42926, 1, -42308>>, <<42928, 42928, 1, -42258>>, <<42929, 42929, 1, -42282>>, <<42930, 42930, 1, -42261>>,
                <<42931, 42931, 1, 928>>, <<42932, 42946, 2, 1>>, <<42948, 42948, 1, -48>>, <<42949, 42949, 1, -42307>>, <<42950, 42950, 1, -35384>>,
                <<42951, 42953, 2, 1>>, <<42960, 42960, 1, 1>>, <<42966, 42968, 2, 1>>, <<42997, 42997, 1, 1>>, <<65313, 65338, 1, 32>>,
                <<66560, 66599, 1, 40>>, <<66736, 66771, 1, 40>>, <<66928, 66964, 2, 39>>, <<66929, 66937, 2, 39>>, <<66941, 66953, 2, 39>>,
                <<66957, 66961, 2, 39>>, <<66965, 66965, 1, 39>>, <<68736, 68786, 1, 64>>, <<71840, 71871, 1, 32>>, <<93760, 93791, 1, 32>>,
                <<125184, 125217, 1, 34>> >>
             hits == {i \in 1..Len(rules) :
                        /\ c >= rules[i][1]
                        /\ c <= rules[i][2]
                        /\ (c - rules[i][1]) % rules[i][3] = 0}
         IN  IF hits = {} THEN <<c>>
             ELSE <<c + rules[CHOOSE i \in hits : TRUE][4]>>

\* str.lower(): every character by LowerChar, except U+03A3, which gives the
\* final sigma U+03C2 when the nearest character before it that is not
\* case-ignorable is cased and the nearest one after it that is not
\* case-ignorable is absent or not cased, and U+03C3 otherwise. The two
\* tables are the ranges <<lo, hi>> of the Case_Ignorable and Cased code
\* points of the same database
Lower(s) ==
    LET case_ignorable == <<
                <<39, 39>>, <<46, 46>>, <<58, 58>>, <<94, 94>>, <<96, 96>>, <<168, 168>>, <<173, 173>>,
                <<175, 175>>, <<180, 180>>, <<183, 184>>, <<688, 879>>, <<884, 885>>, <<890, 890>>, <<900, 901>>,
                <<903, 903>>, <<1155, 1161>>, <<1369, 1369>>, <<1375, 1375>>, <<1425, 1469>>, <<1471, 1471>>, <<1473, 1474>>,
                <<1476, 1477>>, <<1479, 1479>>, <<1524, 1524>>, <<1536, 1541>>, <<1552, 1562>>, <<1564, 1564>>, <<1600, 1600>>,
                <<1611, 1631>>, <<1648, 1648>>, <<1750, 1757>>, <<1759, 1768>>, <<1770, 1773>>, <<1807, 1807>>, <<1809, 1809>>,
                <<1840, 1866>>, <<1958, 1968>>, <<2027, 2037>>, <<2042, 2042>>, <<2045, 2045>>, <<2070, 2093>>, <<2137, 2139>>,
                <<2184, 2184>>, <<2192, 2193>>, <<2200, 2207>>, <<2249, 2306>>, <<2362, 2362>>, <<2364, 2364>>, <<2369, 2376>>,
                <<2381, 2381>>, <<2385, 2391>>, <<2402, 2403>>, <<2417, 2417>>, <<2433, 2433>>, <<2492, 2492>>, <<2497, 2500>>,
                <<2509, 2509>>, <<2530, 2531>>, <<2558, 2558>>, <<2561, 2562>>, <<2620, 2620>>, <<2625, 2626>>, <<2631, 2632>>,
                <<2635, 2637>>, <<2641, 2641>>, <<2672, 2673>>, <<2677, 2677>>, <<2689, 2690>>, <<2748, 2748>>, <<2753, 2757>>,
                <<2759, 2760>>, <<2765, 2765>>, <<2786, 2787>>, <<2810, 2815>>, <<2817, 2817>>, <<2876, 2876>>, <<2879, 2879>>,
                <<2881, 2884>>, <<2893, 2893>>, <<2901, 2902>>, <<2914, 2915>>, <<2946, 2946>>, <<3008, 3008>>, <<3021, 3021>>,
                <<3072, 3072>>, <<3076, 3076>>, <<3132, 3132>>, <<3134, 3136>>, <<3142, 3144>>, <<3146, 3149>>, <<3157, 3158>>,
                <<3170, 3171>>, <<3201, 3201>>, <<3260, 3260>>, <<3263, 3263>>, <<3270, 3270>>, <<3276, 3277>>, <<3298, 3299>>,
                <<3328, 3329>>, <<3387, 3388>>, <<3393, 3396>>, <<3405, 3405>>, <<3426, 3427>>, <<3457, 3457>>, <<3530, 3530>>,
                <<3538, 3540>>, <<3542, 3542>>, <<3633, 3633>>, <<3636, 3642>>, <<3654, 3662>>, <<3761, 3761>>, <<3764, 3772>>,
                <<3782, 3782>>, <<3784, 3789>>, <<3864, 3865>>, <<3893, 3893>>, <<3895, 3895>>, <<3897, 3897>>, <<3953, 3966>>,
                <<3968, 3972>>, <<3974, 3975>>, <<3981, 3991>>, <<3993, 4028>>, <<4038, 4038>>, <<4141, 4144>>, <<4146, 4151>>,
                <<4153, 4154>>, <<4157, 4158>>, <<4184, 4185>>, <<4190, 4192>>, <<4209, 4212>>, <<4226, 4226>>, <<4229, 4230>>,
                <<4237, 4237>>, <<4253, 4253>>, <<4348, 4348>>, <<4957, 4959>>, <<5906, 5908>>, <<5938, 5939>>, <<5970, 5971>>,
                <<6002, 6003>>, <<6068, 6069>>, <<6071, 6077>>, <<6086, 6086>>, <<6089, 6099>>, <<6103, 6103>>, <<6109, 6109>>,
                <<6155, 6159>>, <<6211, 6211>>, <<6277, 6278>>, <<6313, 6313>>, <<6432, 6434>>, <<6439, 6440>>, <<6450, 6450>>,
                <<6457, 6459>>, <<6679, 6680>>, <<6683, 6683>>, <<6742, 6742>>, <<6744, 6750>>, <<6752, 6752>>, <<6754, 6754>>,
                <<6757, 6764>>, <<6771, 6780>>, <<6783, 6783>>, <<6823, 6823>>, <<6832, 6862>>, <<6912, 6915>>, <<6964, 6964>>,
                <<6966, 6970>>, <<6972, 6972>>, <<6978, 6978>>, <<7019, 7027>>, <<7040, 7041>>, <<7074, 7077>>, <<7080, 7081>>,
                <<7083, 7085>>, <<7142, 7142>>, <<7144, 7145>>, <<7149, 7149>>, <<7151, 7153>>, <<7212, 7219>>, <<7222, 7223>>,
                <<7288, 7293>>, <<7376, 7378>>, <<7380, 7392>>, <<7394, 7400>>, <<7405, 7405>>, <<7412, 7412>>, <<7416, 7417>>,
                <<7468, 7530>>, <<7544, 7544>>, <<7579, 7679>>, <<8125, 8125>>, <<8127, 8129>>, <<8141, 8143>>, <<8157, 8159>>,
                <<8173, 8175>>, <<8189, 8190>>, <<8203, 8207>>, <<8216, 8217>>, <<8228, 8228>>, <<8231, 8231>>, <<8234, 8238>>,
                <<8288, 8292>>, <<8294, 8303>>, <<8305, 8305>>, <<8319, 8319>>, <<8336, 8348>>, <<8400, 8432>>, <<11388, 11389>>,
                <<11503, 11505>>, <<11631, 11631>>, <<11647, 11647>>, <<11744, 11775>>, <<11823, 11823>>, <<12293, 12293>>, <<12330, 12333>>,
                <<12337, 12341>>, <<12347, 12347>>, <<12441, 12446>>, <<12540, 12542>>, <<40981, 40981>>, <<42232, 42237>>, <<42508, 42508>>,
                <<42607, 42610>>, <<42612, 42621>>, <<42623, 42623>>, <<42652, 42655>>, <<42736, 42737>>, <<42752, 42785>>, <<42864, 42864>>,
                <<42888, 42890>>, <<42994, 42996>>, <<43000, 43001>>, <<43010, 43010>>, <<43014, 43014>>, <<43019, 43019>>, <<43045, 43046>>,
                <<43052, 43052>>, <<43204, 43205>>, <<43232, 43249>>, <<43263, 43263>>, <<43302, 43309>>, <<43335, 43345>>, <<43392, 43394>>,
                <<43443, 43443>>, <<43446, 43449>>, <<43452, 43453>>, <<43471, 43471>>, <<43493, 43494>>, <<43561, 43566>>, <<43569, 43570>>,
                <<43573, 43574>>, <<43587, 43587>>, <<43596, 43596>>, <<43632, 43632>>, <<43644, 43644>>, <<43696, 43696>>, <<43698, 43700>>,
                <<43703, 43704>>, <<43710, 43711>>, <<43713, 43713>>, <<43741, 43741>>, <<43756, 43757>>, <<43763, 43764>>, <<43766, 43766>>,
                <<43867, 43871>>, <<43881, 43883>>, <<44005, 44005>>, <<44008, 44008>>, <<44013, 44013>>, <<64286, 64286>>, <<64434, 64450>>,
                <<65024, 65039>>, <<65043, 65043>>, <<65056, 65071>>, <<65106, 65106>>, <<65109, 65109>>, <<65279, 65279>>, <<65287, 65287>>,
                <<65294, 65294>>, <<65306, 65306>>, <<65342, 65342>>, <<65344, 65344>>, <<65392, 65392>>, <<65438, 65439>>, <<65507, 65507>>,
                <<65529, 65531>>, <<66045, 66045>>, <<66272, 66272>>, <<66422, 66426>>, <<67456, 67461>>, <<67463, 67504>>, <<67506, 67514>>,
                <<68097, 68099>>, <<68101, 68102>>, <<68108, 68111>>, <<68152, 68154>>, <<68159, 68159>>, <<68325, 68326>>, <<68900, 68903>>,
                <<69291, 69292>>, <<69446, 69456>>, <<69506, 69509>>, <<69633, 69633>>, <<69688, 69702>>, <<69744, 69744>>, <<69747, 69748>>,
                <<69759, 69761>>, <<69811, 69814>>, <<69817, 69818>>, <<69821, 69821>>, <<69826, 69826>>, <<69837, 69837>>, <<69888, 69890>>,
                <<69927, 69931>>, <<69933, 69940>>, <<70003, 70003>>, <<70016, 70017>>, <<70070, 70078>>, <<70089, 70092>>, <<70095, 70095>>,
                <<70191, 70193>>, <<70196, 70196>>, <<70198, 70199>>, <<70206, 70206>>, <<70367, 70367>>, <<70371, 70378>>, <<70400, 70401>>,
                <<70459, 70460>>, <<70464, 70464>>, <<70502, 70508>>, <<70512, 70516>>, <<70712, 70719>>, <<70722, 70724>>, <<70726, 70726>>,
                <<70750, 70750>>, <<70835, 70840>>, <<70842, 70842>>, <<70847, 70848>>, <<70850, 70851>>, <<71090, 71093>>, <<71100, 71101>>,
                <<71103, 71104>>, <<71132, 71133>>, <<71219, 71226>>, <<71229, 71229>>, <<71231, 71232>>, <<71339, 71339>>, <<71341, 71341>>,
                <<71344, 71349>>, <<71351, 71351>>, <<71453, 71455>>, <<71458, 71461>>, <<71463, 71467>>, <<71727, 71735>>, <<71737, 71738>>,
                <<71995, 71996>>, <<71998, 71998>>, <<72003, 72003>>, <<72148, 72151>>, <<72154, 72155>>, <<72160, 72160>>, <<72193, 72202>>,
                <<72243, 72248>>, <<72251, 72254>>, <<72263, 72263>>, <<72273, 72278>>, <<72281, 72283>>, <<72330, 72342>>, <<72344, 72345>>,
                <<72752, 72758>>, <<72760, 72765>>, <<72767, 72767>>, <<72850, 72871>>, <<72874, 72880>>, <<72882, 72883>>, <<72885, 72886>>,
                <<73009, 73014>>, <<73018, 73018>>, <<73020, 73021>>, <<73023, 73029>>, <<73031, 73031>>, <<73104, 73105>>, <<73109, 73109>>,
                <<73111, 73111>>, <<73459, 73460>>, <<78896, 78904>>, <<92912, 92916>>, <<92976, 92982>>, <<92992, 92995>>, <<94031, 94031>>,
                <<94095, 94111>>, <<94176, 94177>>, <<94179, 94180>>, <<110576, 110579>>, <<110581, 110587>>, <<110589, 110590>>, <<113821, 113822>>,
                <<113824, 113827>>, <<118528, 118573>>, <<118576, 118598>>, <<119143, 119145>>, <<119155, 119170>>, <<119173, 119179>>, <<119210, 119213>>,
                <<119362, 119364>>, <<121344, 121398>>, <<121403, 121452>>, <<121461, 121461>>, <<121476, 121476>>, <<121499, 121503>>, <<121505, 121519>>,
                <<122880, 122886>>, <<122888, 122904>>, <<122907, 122913>>, <<122915, 122916>>, <<122918, 122922>>, <<123184, 123197>>, <<123566, 123566>>,
                <<123628, 123631>>, <<125136, 125142>>, <<125252, 125259>>, <<127995, 127999>>, <<917505, 917505>>, <<917536, 917631>>, <<917760, 917999>> >>
        cased == <<
                <<65, 90>>, <<97, 122>>, <<170, 170>>, <<181, 181>>, <<186, 186>>, <<192, 214>>, <<216, 246>>,
                <<248, 442>>, <<444, 447>>, <<452, 659>>, <<661, 696>>, <<704, 705>>, <<736, 740>>, <<837, 837>>,
                <<880, 883>>, <<886, 887>>, <<890, 893>>, <<895, 895>>, <<902, 902>>, <<904, 906>>, <<908, 908>>,
                <<910, 929>>, <<931, 1013>>, <<1015, 1153>>, <<1162, 1327>>, <<1329, 1366>>, <<1376, 1416>>, <<4256, 4293>>,
                <<4295, 4295>>, <<4301, 4301>>, <<4304, 4346>>, <<4349, 4351>>, <<5024, 5109>>, <<5112, 5117>>, <<7296, 7304>>,
                <<7312, 7354>>, <<7357, 7359>>, <<7424, 7615>>, <<7680, 7957>>, <<7960, 7965>>, <<7968, 8005>>, <<8008, 8013>>,
                <<8016, 8023>>, <<8025, 8025>>, <<8027, 8027>>, <<8029, 8029>>, <<8031, 8061>>, <<8064, 8116>>, <<8118, 8124>>,
                <<8126, 8126>>, <<8130, 8132>>, <<8134, 8140>>, <<8144, 8147>>, <<8150, 8155>>, <<8160, 8172>>, <<8178, 8180>>,
                <<8182, 8188>>, <<8305, 8305>>, <<8319, 8319>>, <<8336, 8348>>, <<8450, 8450>>, <<8455, 8455>>, <<8458, 8467>>,
                <<8469, 8469>>, <<8473, 8477>>, <<8484, 8484>>, <<8486, 8486>>, <<8488, 8488>>, <<8490, 8493>>, <<8495, 8500>>,
                <<8505, 8505>>, <<8508, 8511>>, <<8517, 8521>>, <<8526, 8526>>, <<8544, 8575>>, <<8579, 8580>>, <<9398, 9449>>,
                <<11264, 11492>>, <<11499, 11502>>, <<11506, 11507>>, <<11520, 11557>>, <<11559, 11559>>, <<11565, 11565>>, <<42560, 42605>>,
                <<42624, 42653>>, <<42786, 42887>>, <<42891, 42894>>, <<42896, 42954>>, <<42960, 42961>>, <<42963, 42963>>, <<42965, 42969>>,
                <<42997, 42998>>, <<43000, 43002>>, <<43824, 43866>>, <<43868, 43880>>, <<43888, 43967>>, <<64256, 64262>>, <<64275, 64279>>,
                <<65313, 65338>>, <<65345, 65370>>, <<66560, 66639>>, <<66736, 66771>>, <<66776, 66811>>, <<66928, 66938>>, <<66940, 66954>>,
                <<66956, 66962>>, <<66964, 66965>>, <<66967, 66977>>, <<66979, 66993>>, <<66995, 67001>>, <<67003, 67004>>, <<67456, 67456>>,
                <<67459, 67461>>, <<67463, 67504>>, <<67506, 67514>>, <<68736, 68786>>, <<68800, 68850>>, <<71840, 71903>>, <<93760, 93823>>,
                <<119808, 119892>>, <<119894, 119964>>, <<119966, 119967>>, <<119970, 119970>>, <<119973, 119974>>, <<119977, 119980>>, <<119982, 119993>>,
                <<119995, 119995>>, <<119997, 120003>>, <<120005, 120069>>, <<120071, 120074>>, <<120077, 120084>>, <<120086, 120092>>, <<120094, 120121>>,
                <<120123, 120126>>, <<120128, 120132>>, <<120134, 120134>>, <<120138, 120144>>, <<120146, 120485>>, <<120488, 120512>>, <<120514, 120538>>,
                <<120540, 120570>>, <<120572, 120596>>, <<120598, 120628>>, <<120630, 120654>>, <<120656, 120686>>, <<120688, 120712>>, <<120714, 120744>>,
                <<120746, 120770>>, <<120772, 120779>>, <<122624, 122633>>, <<122635, 122654>>, <<125184, 125251>>, <<127280, 127305>>, <<127312, 127337>>,
                <<127344, 127369>> >>
        InRanges(c, rs) == \E i \in 1..Len(rs) : c >= rs[i][1] /\ c <= rs[i][2]
        IsCaseIgnorable(c) == InRanges(c, case_ignorable)
        IsCased(c) == InRanges(c, cased)
        final_sigma(i) ==
            LET before == {j \in 1..(i - 1) : ~IsCaseIgnorable(s[j])}
                after == {j \in (i + 1)..Len(s) : ~IsCaseIgnorable(s[j])}
            IN  /\ before # {}
                /\ IsCased(s[CHOOSE j \in before : \A k \in before : k <= j])
                /\ \/ after = {}
                   \/ ~IsCased(s[CHOOSE j \in after : \A k \in after : j <= k])
        LowerAt(i) ==
            IF s[i] = 931 THEN (IF final_sigma(i) THEN <<962>> ELSE <<963>>)
            ELSE LowerChar(s[i])
        RECURSIVE LowerRange(_, _)
        LowerRange(lo, hi) ==
            IF lo > hi THEN <<>>
            ELSE IF lo = hi THEN LowerAt(lo)
            ELSE LET mid == (lo + hi) \div 2
                 IN  LowerRange(lo, mid) \o LowerRange(mid + 1, hi)
    IN  LowerRange(1, Len(s))

\* n copies of character c
Repeat(c, n) == [i \in 1..n |-> c]

----------------------------------------------------------------------------
(* Characters named by the source *)

NUL == 0
LF == 10
CR == 13
DOT == 46
SLASH == 47
BACKSLASH == 92
MAX_FILENAME_LENGTH == 255

\* dangerous_patterns
dangerous_patterns ==
    << <<DOT, DOT>>, <<SLASH>>, <<BACKSLASH>>, <<NUL>>, <<CR>>, <<LF>> >>

\* the character class [a-zA-Z0-9._-]
InClass(c) ==
    \/ c >= 97 /\ c <= 122
    \/ c >= 65 /\ c <= 90
    \/ c >= 48 /\ c <= 57
    \/ c = DOT
    \/ c = 95
    \/ c = 45

AllInClass(s) == Len(s) >= 1 /\ \A i \in 1..Len(s) : InClass(s[i])

\* the pattern without its end anchor: r'^[a-zA-Z0-9._-]+'
re_match_NoEndAnchor(s) == Len(s) >= 1 /\ InClass(s[1])

\* re.match(r'^[a-zA-Z0-9._-]+$', s): '$' also matches just before a final LF
re_match(s) ==
    \/ AllInClass(s)
    \/ Len(s) >= 2 /\ s[Len(s)] = LF /\ AllInClass(Slice(s, 0, Len(s) - 1))

\* os.path.basename (posixpath): the part after the last '/'
basename(p) == SliceFrom(p, RFind(p, SLASH) + 1)

Raise(exc, msg) == [ok |-> FALSE, value |-> <<>>, exc |-> exc, msg |-> msg]
Return(v) == [ok |-> TRUE, value |-> v, exc |-> "none", msg |-> "none"]

HasDangerousPattern(s) ==
    \E k \in 1..Len(dangerous_patterns) : Contains(dangerous_patterns[k], s)

IsHidden(s) == StartsWith(s, <<DOT>>)

\* the length limit off by one: len(basename) >= 255
TooLong_OffByOne(s) == Len(s) >= MAX_FILENAME_LENGTH

TooLong(s) == Len(s) > MAX_FILENAME_LENGTH

sanitize_filename(name) ==
    IF name = <<>> THEN Raise("PathTraversalError", "Empty filename not allowed")
    ELSE LET base == basename(name)
         IN  IF HasDangerousPattern(base)
                THEN Raise("PathTraversalError", "Filename contains dangerous pattern")
             ELSE IF ~re_match(base)
                THEN Raise("PathTraversalError", "Filename contains invalid characters")
             ELSE IF IsHidden(base)
                THEN Raise("PathTraversalError", "Hidden files not allowed")
             ELSE IF TooLong(base)
                THEN Raise("PathTraversalError", "Filename too long")
             ELSE Return(base)

----------------------------------------------------------------------------
(* Extension validation *)

EXT_MP3 == <<46, 109, 112, 51>>
EXT_WAV == <<46, 119, 97, 118>>
EXT_WEBM == <<46, 119, 101, 98, 109>>
EXT_M4A == <<46, 109, 52, 97>>
EXT_OGG == <<46, 111, 103, 103>>
EXT_FLAC == <<46, 102, 108, 97, 99>>
EXT_MP4 == <<46, 109, 112, 52>>

ALLOWED_EXTENSIONS == {EXT_MP3, EXT_WAV, EXT_WEBM, EXT_M4A, EXT_OGG, EXT_FLAC}

\* os.path.splitext(p)[1] (genericpath._splitext with sep '/', extsep '.'):
\* the suffix from the last dot, unless that dot is not after the last
\* separator or only dots precede it in the last component
splitext_ext(p) ==
    LET sepIndex == RFind(p, SLASH)
        dotIndex == RFind(p, DOT)
    IN  IF dotIndex > sepIndex
           /\ \E k \in (sepIndex + 1)..(dotIndex - 1) : p[k + 1] # DOT
        THEN SliceFrom(p, dotIndex)
        ELSE <<>>

\* the extension taken without .lower()
ExtensionOf_NoLower(name) == splitext_ext(name)

ExtensionOf(name) == Lower(splitext_ext(name))

validate_file_extension(name, allowed_extensions) ==
    LET extension == ExtensionOf(name)
    IN  IF extension = <<>>
           THEN Raise("InvalidFileError", "File must have an extension")
        ELSE IF extension \notin allowed_extensions
           THEN Raise("InvalidFileError", "Unsupported file format")
        ELSE Return(extension)

----------------------------------------------------------------------------
(* Content signature validation *)

MAGIC_RIFF == <<82, 73, 70, 70>>
MAGIC_WEBM == <<26, 69, 223, 163>>
MAGIC_ID3 == <<73, 68, 51>>
MAGIC_OGG == <<79, 103, 103, 83>>
MAGIC_FLAC == <<102, 76, 97, 67>>
MAGIC_M4A_20 == <<0, 0, 0, 32, 102, 116, 121, 112, 77, 52, 65, 32>>
MAGIC_MP4_18 == <<0, 0, 0, 24, 102, 116, 121, 112, 109, 112, 52, 50>>
MAGIC_MP4_20 == <<0, 0, 0, 32, 102, 116, 121, 112, 109, 112, 52, 50>>
MAGIC_M4A_18 == <<0, 0, 0, 24, 102, 116, 121, 112, 77, 52, 65, 32>>
BYTES_WAVE == <<87, 65, 86, 69>>
BYTES_FTYP == <<102, 116, 121, 112>>

Entry(m, e) == [magic |-> m, extension |-> e]

\* a table in which 'RI' -> '.mp3' precedes 'RIFF' -> '.wav'
AUDIO_MAGIC_NUMBERS_WithShorterPrefix ==
    << Entry(<<82, 73>>, EXT_MP3),
       Entry(MAGIC_RIFF, EXT_WAV),
       Entry(<<255, 251>>, EXT_MP3),
       Entry(MAGIC_ID3, EXT_MP3),
       Entry(MAGIC_OGG, EXT_OGG),
       Entry(MAGIC_FLAC, EXT_FLAC),
       Entry(MAGIC_M4A_20, EXT_M4A),
       Entry(MAGIC_MP4_18, EXT_MP4),
       Entry(MAGIC_WEBM, EXT_WEBM) >>

\* the dict AUDIO_MAGIC_NUMBERS in its insertion (= iteration) order
AUDIO_MAGIC_NUMBERS ==
    << Entry(<<255, 251>>, EXT_MP3),
       Entry(<<255, 243>>, EXT_MP3),
       Entry(<<255, 242>>, EXT_MP3),
       Entry(MAGIC_ID3, EXT_MP3),
       Entry(MAGIC_RIFF, EXT_WAV),
       Entry(MAGIC_OGG, EXT_OGG),
       Entry(MAGIC_FLAC, EXT_FLAC),
       Entry(MAGIC_M4A_20, EXT_M4A),
       Entry(MAGIC_MP4_18, EXT_MP4),
       Entry(MAGIC_MP4_20, EXT_MP4),
       Entry(MAGIC_M4A_18, EXT_M4A),
       Entry(MAGIC_WEBM, EXT_WEBM) >>

MIN_CONTENT_LENGTH == 20
WAVE_OFFSET == 8
WAV_MIN_LENGTH == 12
WAVE_END == 12
FTYP_WINDOW == 32
WEBM_MIN_LENGTH == 32

\* the size guard with the WAV header's length as its limit: len(file_content) < 12
TooSmall_HeaderOnly(content) == Len(content) < WAV_MIN_LENGTH

\* the size guard off by one: len(file_content) <= 20
TooSmall_Inclusive(content) == Len(content) <= MIN_CONTENT_LENGTH

\* len(file_content) < 20
TooSmall(content) == Len(content) < MIN_CONTENT_LENGTH

\* the WAV check without the comparison to b'WAVE'
WavDeepCheck_LengthOnly(content) == Len(content) > WAV_MIN_LENGTH

\* len(file_content) > 12 and file_content[8:12] == b'WAVE'
WavDeepCheck(content) ==
    /\ Len(content) > WAV_MIN_LENGTH
    /\ Slice(content, WAVE_OFFSET, WAVE_END) = BYTES_WAVE

\* b'ftyp' in file_content[:32]
FtypDeepCheck(content) == Contains(BYTES_FTYP, Slice(content, 0, FTYP_WINDOW))

\* the WebM length check off by one: len(file_content) >= 32
WebmDeepCheck_Inclusive(content) == Len(content) >= WEBM_MIN_LENGTH

\* len(file_content) > 32
WebmDeepCheck(content) == Len(content) > WEBM_MIN_LENGTH

\* the RIFF branch taken whatever the expected extension
IsWavBranch_AnyExtension(magic, expected) == magic = MAGIC_RIFF

\* magic_bytes == b'RIFF' and expected_extension == '.wav'
IsWavBranch(magic, expected) == magic = MAGIC_RIFF /\ expected = EXT_WAV

\* magic_bytes.startswith(b'\x00\x00\x00') and expected_extension in ['.m4a', '.mp4']
IsMp4Branch(magic, expected) ==
    StartsWith(magic, <<0, 0, 0>>) /\ expected \in {EXT_M4A, EXT_MP4}

\* magic_bytes == b'\x1A\x45\xDF\xA3' and expected_extension == '.webm'
IsWebmBranch(magic, expected) == magic = MAGIC_WEBM /\ expected = EXT_WEBM

\* the first loop over AUDIO_MAGIC_NUMBERS.items(), from entry i on; "fallthrough"
\* when the loop ends without returning
RECURSIVE MagicLoop(_, _, _)
MagicLoop(content, expected, i) ==
    IF i > Len(AUDIO_MAGIC_NUMBERS) THEN "fallthrough"
    ELSE LET magic == AUDIO_MAGIC_NUMBERS[i].magic
             extension == AUDIO_MAGIC_NUMBERS[i].extension
         IN  IF StartsWith(content, magic)
             THEN IF IsWavBranch(magic, expected)
                     THEN (IF WavDeepCheck(content) THEN "true" ELSE "false")
                  ELSE IF IsMp4Branch(magic, expected)
                     THEN (IF FtypDeepCheck(content)
                              THEN (IF extension = expected THEN "true" ELSE "false")
                              ELSE "false")
                  ELSE IF IsWebmBranch(magic, expected)
                     THEN (IF WebmDeepCheck(content) THEN "true" ELSE "false")
                  ELSE IF extension = expected THEN "true"
                  ELSE MagicLoop(content, expected, i + 1)
             ELSE MagicLoop(content, expected, i + 1)

\* detected_extensions of the second loop
detected_extensions(content) ==
    {AUDIO_MAGIC_NUMBERS[i].extension :
        i \in {j \in 1..Len(AUDIO_MAGIC_NUMBERS) :
                 StartsWith(content, AUDIO_MAGIC_NUMBERS[j].magic)}}

validate_audio_content(content, expected) ==
    IF TooSmall(content) THEN FALSE
    ELSE LET r == MagicLoop(content, expected, 1)
         IN  IF r = "true" THEN TRUE
             ELSE IF r = "false" THEN FALSE
             ELSE IF detected_extensions(content) # {} THEN FALSE
             ELSE FALSE

----------------------------------------------------------------------------
(* Inputs *)

MaxHeadLen == 2
MaxContentLen == 34

\* characters the uploaded names are built from: a, W, 9, '.', '-', '_',
\* '/', '\', NUL, CR, LF and ' '
NameAlphabet == {97, 87, 57, DOT, 45, 95, SLASH, BACKSLASH, NUL, CR, LF, 32}

NameHeads == UNION {[1..n -> NameAlphabet] : n \in 0..MaxHeadLen}

\* "", ".wav", ".WAV", ".Mp3", ".flac", ".txt", ".", "..wav", ".tar.gz", "wav"
NameTails ==
    { <<>>, EXT_WAV, <<46, 87, 65, 86>>, <<46, 77, 112, 51>>, EXT_FLAC,
      <<46, 116, 120, 116>>, <<DOT>>, <<46, 46, 119, 97, 118>>,
      <<46, 116, 97, 114, 46, 103, 122>>, <<119, 97, 118>> }

\* a run of 'a' that brings a name to the length limit
NamePads == {0, MAX_FILENAME_LENGTH - 5}

\* "../../etc/passwd", "note.wav", "clip.mp3"
ScenarioNames ==
    { <<46, 46, 47, 46, 46, 47, 101, 116, 99, 47, 112, 97, 115, 115, 119, 100>>,
      <<110, 111, 116, 101, 46, 119, 97, 118>>,
      <<99, 108, 105, 112, 46, 109, 112, 51>> }

FilenameInputs ==
    ScenarioNames \cup
    { x[1] \o Repeat(97, x[2]) \o x[3] : x \in NameHeads \X NamePads \X NameTails }

\* leading bytes of the payloads: every table prefix, truncated and foreign ones
ContentHeads ==
    { AUDIO_MAGIC_NUMBERS[i].magic : i \in 1..Len(AUDIO_MAGIC_NUMBERS) } \cup
    { <<>>, <<82, 73, 70>>, <<88, 88, 88, 88>>, <<77, 90>>, <<255, 250>>,
      <<0, 0, 0>>, <<0, 0, 0, 32, 102, 116, 121, 112, 105, 115, 111, 109>> }

\* bytes that follow the head: nothing, a size field and WAVE, a size field and
\* XXXX, a size field and WAVX, WAVE without a size field
ContentMids ==
    { <<>>, <<0, 0, 0, 0>> \o BYTES_WAVE, <<0, 0, 0, 0, 88, 88, 88, 88>>,
      <<0, 0, 0, 0, 87, 65, 86, 88>>, BYTES_WAVE }

ContentFills == {0, 88}

ContentInputs ==
    { Slice(x[1] \o x[2] \o Repeat(x[3], MaxContentLen), 0, x[4]) :
        x \in ContentHeads \X ContentMids \X ContentFills \X (0..MaxContentLen) }

\* every allowed extension, '.mp4', '.txt' and ''
ExtensionInputs == ALLOWED_EXTENSIONS \cup {EXT_MP4, <<46, 116, 120, 116>>, <<>>}

NoResult == [ok |-> FALSE, value |-> <<>>, exc |-> "none", msg |-> "not called"]

----------------------------------------------------------------------------
(* Filename stages of transcribe_audio: sanitize_filename, then           *)
(* validate_file_extension on the sanitized name                           *)

InitFilename ==
    /\ HandlerIdle
    /\ ScanIdle
    /\ WhisperIdle
    /\ AgentIdle
    /\ ClientIdle
    /\ filename \in FilenameInputs
    /\ fpc = "start"
    /\ san = NoResult
    /\ extres = NoResult
    /\ file_content = <<>>
    /\ expected_extension = <<>>
    /\ cpc = "idle"
    /\ verdict = FALSE

SanitizeFilename ==
    /\ fpc = "start"
    /\ san' = sanitize_filename(filename)
    /\ fpc' = "sanitized"
    /\ UNCHANGED <<filename, extres, file_content, expected_extension, cpc, verdict>>
    /\ UNCHANGED hvars
    /\ UNCHANGED xvars

ValidateFileExtension ==
    /\ fpc = "sanitized"
    /\ san.ok
    /\ extres' = validate_file_extension(san.value, ALLOWED_EXTENSIONS)
    /\ fpc' = "validated"
    /\ UNCHANGED <<filename, san, file_content, expected_extension, cpc, verdict>>
    /\ UNCHANGED hvars
    /\ UNCHANGED xvars

NextFilename == SanitizeFilename \/ ValidateFileExtension

SpecFilename == InitFilename /\ [][NextFilename]_vars

----------------------------------------------------------------------------
(* Content stage: validate_audio_content on a payload and an extension     *)

InitContent ==
    /\ HandlerIdle
    /\ ScanIdle
    /\ WhisperIdle
    /\ AgentIdle
    /\ ClientIdle
    /\ filename = <<>>
    /\ fpc = "idle"
    /\ san = NoResult
    /\ extres = NoResult
    /\ file_content \in ContentInputs
    /\ expected_extension \in ExtensionInputs
    /\ cpc = "start"
    /\ verdict = FALSE

ValidateAudioContent ==
    /\ cpc = "start"
    /\ verdict' = validate_audio_content(file_content, expected_extension)
    /\ cpc' = "done"
    /\ UNCHANGED <<filename, fpc, san, extres, file_content, expected_extension>>
    /\ UNCHANGED hvars
    /\ UNCHANGED xvars

NextContent == ValidateAudioContent

SpecContent == InitContent /\ [][NextContent]_vars

----------------------------------------------------------------------------
(* detect_malware_patterns *)

WINDOW == 1024
NULL_LIMIT == 512
LINE_LIMIT == 800

Pattern(p, r) == [pattern |-> p, reason |-> r]

\* the list malware_patterns in its order
malware_patterns ==
    << Pattern(<<77, 90>>, "PE executable header detected"),
       Pattern(<<127, 69, 76, 70>>, "ELF executable header detected"),
       Pattern(<<202, 254, 186, 190>>, "Mach-O executable header detected"),
       Pattern(<<35, 33, 47, 98, 105, 110, 47>>, "Shell script detected"),
       Pattern(<<35, 33, 47, 117, 115, 114, 47, 98, 105, 110, 47>>, "Shell script detected"),
       Pattern(<<60, 115, 99, 114, 105, 112, 116>>, "JavaScript detected"),
       Pattern(<<60, 63, 112, 104, 112>>, "PHP script detected"),
       Pattern(<<112, 121, 116, 104, 111, 110>>, "Python script detected"),
       Pattern(<<80, 75, 3, 4>>, "ZIP archive detected"),
       Pattern(<<82, 97, 114, 33>>, "RAR archive detected"),
       Pattern(<<31, 139>>, "GZIP archive detected"),
       Pattern(<<101, 118, 97, 108, 40>>, "Suspicious eval() function detected"),
       Pattern(<<115, 121, 115, 116, 101, 109, 40>>, "Suspicious system() function detected"),
       Pattern(<<101, 120, 101, 99, 40>>, "Suspicious exec() function detected"),
       Pattern(<<115, 104, 101, 108, 108, 95, 101, 120, 101, 99>>,
               "Suspicious shell_exec() function detected") >>

\* the tuple (is_suspicious, reason); none says that reason is None
Flagged(reason) == [suspicious |-> TRUE, none |-> FALSE, reason |-> reason]
NotFlagged == [suspicious |-> FALSE, none |-> TRUE, reason |-> ""]

\* the whole payload taken for the inspected part
Window_Whole(content) == content

\* file_content[:1024]
Window(content) == Slice(content, 0, WINDOW)

\* the pattern looked for at offset 0 only
pattern_in_AtStart(pattern, window) == StartsWith(window, pattern)

\* pattern in file_content[:1024]
pattern_in(pattern, window) == Contains(pattern, window)

\* the loop over malware_patterns from entry i on: the index of the first
\* pattern found, 0 when the loop ends
RECURSIVE PatternLoop(_, _)
PatternLoop(content, i) ==
    IF i > Len(malware_patterns) THEN 0
    ELSE IF pattern_in(malware_patterns[i].pattern, Window(content)) THEN i
    ELSE PatternLoop(content, i + 1)

\* file_content[:1024].count(b'\x00')
null_count(content) ==
    LET window == Window(content)
    IN  Cardinality({i \in 1..Len(window) : window[i] = NUL})

Max(a, b) == IF a >= b THEN a ELSE b

\* one turn of the loop `for byte in file_content[:1024]` on the pair
\* <<max_line_length, current_length>>
LineStep(acc, byte) ==
    IF byte \in {LF, CR}
    THEN <<Max(acc[1], acc[2]), 0>>
    ELSE <<acc[1], acc[2] + 1>>

\* the turns of the loop for the bytes lo..hi in their order, starting from
\* acc (the range is halved, and the first half is evaluated before the
\* second is entered, to keep the evaluation shallow)
RECURSIVE LineLoop(_, _, _, _)
LineLoop(window, lo, hi, acc) ==
    IF lo > hi THEN acc
    ELSE IF lo = hi THEN LineStep(acc, window[lo])
    ELSE LET mid == (lo + hi) \div 2
             left == LineLoop(window, lo, mid, acc)
         IN  IF left[2] >= 0 THEN LineLoop(window, mid + 1, hi, left) ELSE left

\* the bytes after the last line break left out
final_max_Dropped(max_line_length, current_length) == max_line_length

\* max_line_length = max(max_line_length, current_length) after the loop
final_max(max_line_length, current_length) == Max(max_line_length, current_length)

max_line_length_of(content) ==
    LET window == Window(content)
        end == LineLoop(window, 1, Len(window), <<0, 0>>)
    IN  final_max(end[1], end[2])

detect_malware_patterns(content) ==
    LET found == PatternLoop(content, 1)
        nulls == null_count(content)
        longest == max_line_length_of(content)
    IN  IF found # 0 THEN Flagged(malware_patterns[found].reason)
        ELSE IF nulls > NULL_LIMIT
             THEN Flagged("Excessive null bytes: " \o ToString(nulls) \o "/1024")
        ELSE IF longest > LINE_LIMIT
             THEN Flagged("Extremely long line: " \o ToString(longest) \o " bytes")
        ELSE NotFlagged

----------------------------------------------------------------------------
(* The temporary directory and the error messages *)

NumRequests == 2
MaxFileSize == 36

\* the requests of the concurrent runs
Requests == 1..NumRequests

\* the random part of a temporary path: secrets.token_hex(8) and mkstemp's own
\* random characters; None is 0
Tokens == 1..(NumRequests + 1)
None == 0

OWNER_RW == 384
DEFAULT_FILE_MODE == 420

NoFile == [exists |-> FALSE, mode |-> 0, content |-> <<>>, suffix |-> <<>>, owner |-> 0]

EmptyDir == [t \in Tokens |-> NoFile]

\* tempfile.mkstemp opens with O_CREAT | O_EXCL: only a path that does not exist
FreeTokens_NotExclusive(dir) == Tokens

FreeTokens(dir) == {t \in Tokens : ~dir[t].exists}

\* the file mkstemp leaves at the path: empty, mode 0600, named ...<suffix>
mkstemp_file(dir, t, suffix, r) ==
    [exists |-> TRUE, mode |-> OWNER_RW, content |-> <<>>, suffix |-> suffix,
     owner |-> IF dir[t].exists THEN dir[t].owner ELSE r]

\* os.chmod(temp_path, 0o644)
chmod_600_WorldReadable(file) == [file EXCEPT !.mode = DEFAULT_FILE_MODE]

\* os.chmod(temp_path, 0o600)
chmod_600(file) == [file EXCEPT !.mode = OWNER_RW]

\* temp_file.write(file_content[:20])
written_bytes_HeaderOnly(content) == Slice(content, 0, MIN_CONTENT_LENGTH)

\* temp_file.write(file_content)
written_bytes(content) == content

\* the bytes on disk when the write fails after the OS stored k of them
partial_bytes(content, k) == Slice(content, 0, k)

\* os.unlink(path)
unlink(dir, t) == [dir EXCEPT ![t] = NoFile]

\* safe_cleanup_temp_file(temp_path): if os.path.exists: os.chmod, os.unlink;
\* fault names the call that raises, if any: the except clause logs and
\* returns, so a failing os.chmod leaves the file as it is and a failing
\* os.unlink leaves it with mode 0600
safe_cleanup_temp_file(dir, t, fault) ==
    IF ~dir[t].exists THEN dir
    ELSE IF fault = "chmod" THEN dir
    ELSE IF fault = "unlink" THEN [dir EXCEPT ![t] = chmod_600(dir[t])]
    ELSE unlink([dir EXCEPT ![t] = chmod_600(dir[t])], t)

generic_messages ==
    [file_validation |-> "The uploaded file format is not supported or contains invalid content",
     file_size |-> "File size exceeds the maximum allowed limit",
     processing |-> "Audio processing could not be completed",
     server_error |-> "A server error occurred while processing your request",
     path_traversal |-> "The filename contains invalid characters",
     malware_detected |-> "The uploaded file contains suspicious content",
     invalid_extension |-> "The file extension is not supported",
     content_mismatch |-> "The file content does not match the expected format",
     timeout |-> "The request timed out while processing",
     quota_exceeded |-> "The service quota has been exceeded"]

default_message ==
    "An error occurred while processing your request. Please try again with a valid audio file."

get_generic_error_message(error_type) ==
    IF error_type \in DOMAIN generic_messages
    THEN generic_messages[error_type]
    ELSE default_message

----------------------------------------------------------------------------
(* Exceptions and the except clauses of transcribe_audio *)

\* an exception in flight: its class, for an HTTPException its status and
\* detail, and the text str(e) gives
Exc(type, status, detail, text) ==
    [type |-> type, status |-> status, detail |-> detail, text |-> text]

\* the classes an exception of the given class is an instance of
Bases(type) ==
    CASE type = "PathTraversalError" ->
            {"PathTraversalError", "SecurityError", "Exception", "BaseException"}
      [] type = "InvalidFileError" ->
            {"InvalidFileError", "SecurityError", "Exception", "BaseException"}
      [] type = "SecurityError" -> {"SecurityError", "Exception", "BaseException"}
      [] type = "HTTPException" -> {"HTTPException", "Exception", "BaseException"}
      [] type = "OSError" -> {"OSError", "Exception", "BaseException"}
      [] type = "RuntimeError" -> {"RuntimeError", "Exception", "BaseException"}
      [] type = "CancelledError" -> {"CancelledError", "BaseException"}
      [] type = "KeyboardInterrupt" -> {"KeyboardInterrupt", "BaseException"}

Response(status, detail) == [status |-> status, detail |-> detail]

\* no response of the handler: the exception leaves it
Propagates == Response(0, "none")

\* 'except Exception' answering with the exception's text
except_clauses_ExceptionText(e) ==
    IF "PathTraversalError" \in Bases(e.type)
       THEN Response(400, get_generic_error_message("path_traversal"))
    ELSE IF "InvalidFileError" \in Bases(e.type)
       THEN Response(400, get_generic_error_message("file_validation"))
    ELSE IF "SecurityError" \in Bases(e.type)
       THEN Response(500, get_generic_error_message("server_error"))
    ELSE IF "Exception" \in Bases(e.type)
       THEN Response(500, e.text)
    ELSE Propagates

\* the except clauses of transcribe_audio, in their order
except_clauses(e) ==
    IF "PathTraversalError" \in Bases(e.type)
       THEN Response(400, get_generic_error_message("path_traversal"))
    ELSE IF "InvalidFileError" \in Bases(e.type)
       THEN Response(400, get_generic_error_message("file_validation"))
    ELSE IF "SecurityError" \in Bases(e.type)
       THEN Response(500, get_generic_error_message("server_error"))
    ELSE IF "Exception" \in Bases(e.type)
       THEN Response(500, get_generic_error_message("processing"))
    ELSE Propagates

----------------------------------------------------------------------------
(* POST /transcribe of the transcription service: transcribe_audio          *)

\* the request as it arrives: the locals of the handler before its first line
NewRequest(name, upload) ==
    [pc |-> "start",
     filename |-> name,              \* file.filename
     upload |-> upload,              \* the bytes file.read() gives
     sanitized_filename |-> <<>>,
     file_extension |-> <<>>,
     file_content |-> <<>>,
     temp_path |-> None,             \* temp_path of create_secure_temp_file
     temp_file_path |-> None,
     exc |-> "none",                 \* class of the exception that ended the try block
     status |-> 0,                   \* status of the response, 0 while there is none
     detail |-> "none",
     reject |-> "none",              \* the validation stage that rejected
     stages |-> <<>>,                \* the stages run so far
     created |-> 0,                  \* files mkstemp created for this request
     removals |-> <<>>,              \* who unlinked a file of this request
     foreign |-> FALSE]              \* whether it touched a file of another request

\* an exception raised inside the try block: the matching except clause answers
Caught(q, e) ==
    LET resp == except_clauses(e)
    IN  [q EXCEPT !.pc = "finally", !.exc = e.type,
                  !.status = resp.status, !.detail = resp.detail]

Stage(q, name) == [q EXCEPT !.stages = Append(@, name)]

\* if not model: raise HTTPException(500, ...) before the try block
CheckModel(r) ==
    /\ rq[r].pc = "start"
    /\ rq' = [rq EXCEPT ![r] =
                IF ~model_loaded
                THEN [@ EXCEPT !.pc = "done", !.status = 500,
                               !.detail = get_generic_error_message("server_error")]
                ELSE [@ EXCEPT !.pc = "sanitize"]]
    /\ UNCHANGED <<fs, debug_copies, log_level, model_loaded>>
    /\ UNCHANGED pvars
    /\ UNCHANGED xvars

\* sanitized_filename = sanitize_filename(file.filename)
Sanitize(r) ==
    /\ rq[r].pc = "sanitize"
    /\ LET res == sanitize_filename(rq[r].filename)
           q == Stage(rq[r], "sanitize")
       IN  rq' = [rq EXCEPT ![r] =
                    IF res.ok
                    THEN [q EXCEPT !.pc = "extension", !.sanitized_filename = res.value]
                    ELSE Caught([q EXCEPT !.reject = "sanitize"],
                                Exc(res.exc, 0, "none", res.msg))]
    /\ UNCHANGED <<fs, debug_copies, log_level, model_loaded>>
    /\ UNCHANGED pvars
    /\ UNCHANGED xvars

\* file_extension = validate_file_extension(sanitized_filename, config.ALLOWED_EXTENSIONS)
ValidateExtension(r) ==
    /\ rq[r].pc = "extension"
    /\ LET res == validate_file_extension(rq[r].sanitized_filename, ALLOWED_EXTENSIONS)
           q == Stage(rq[r], "extension")
       IN  rq' = [rq EXCEPT ![r] =
                    IF res.ok
                    THEN [q EXCEPT !.pc = "read", !.file_extension = res.value]
                    ELSE Caught([q EXCEPT !.reject = "extension"],
                                Exc(res.exc, 0, "none", res.msg))]
    /\ UNCHANGED <<fs, debug_copies, log_level, model_loaded>>
    /\ UNCHANGED pvars
    /\ UNCHANGED xvars

\* file_content = await file.read(): the one point where the request can be
\* cancelled, and the read can fail
ReadContent(r) ==
    /\ rq[r].pc = "read"
    /\ \E outcome \in {"ok", "cancelled", "failed"} :
         rq' = [rq EXCEPT ![r] =
                  IF outcome = "ok"
                  THEN [@ EXCEPT !.pc = "size", !.file_content = rq[r].upload]
                  ELSE IF outcome = "cancelled"
                  THEN Caught(@, Exc("CancelledError", 0, "none", "cancelled"))
                  ELSE Caught(@, Exc("OSError", 0, "none", "read failed"))]
    /\ UNCHANGED <<fs, debug_copies, log_level, model_loaded>>
    /\ UNCHANGED pvars
    /\ UNCHANGED xvars

\* if len(file_content) > config.MAX_FILE_SIZE: raise HTTPException(413, ...)
CheckSize(r) ==
    /\ rq[r].pc = "size"
    /\ LET q == Stage(rq[r], "size")
       IN  rq' = [rq EXCEPT ![r] =
                    IF Len(q.file_content) > MaxFileSize
                    THEN Caught([q EXCEPT !.reject = "size"],
                                Exc("HTTPException", 413,
                                    get_generic_error_message("file_size"), ""))
                    ELSE [q EXCEPT !.pc = "content"]]
    /\ UNCHANGED <<fs, debug_copies, log_level, model_loaded>>
    /\ UNCHANGED pvars
    /\ UNCHANGED xvars

\* the content gate of the mock service: the verdict is logged and ignored
content_accepted_Lenient(content, extension) == TRUE

\* a content gate that also asks the scanner
content_accepted_Scanned(content, extension) ==
    /\ validate_audio_content(content, extension)
    /\ ~detect_malware_patterns(content).suspicious

\* validate_audio_content(file_content, file_extension)
content_accepted(content, extension) == validate_audio_content(content, extension)

\* if not validate_audio_content(...): raise HTTPException(400, ...)
CheckContent(r) ==
    /\ rq[r].pc = "content"
    /\ LET q == Stage(rq[r], "content")
       IN  rq' = [rq EXCEPT ![r] =
                    IF ~content_accepted(q.file_content, q.file_extension)
                    THEN Caught([q EXCEPT !.reject = "content"],
                                Exc("HTTPException", 400,
                                    get_generic_error_message("file_validation"), ""))
                    ELSE [q EXCEPT !.pc = "mkstemp"]]
    /\ UNCHANGED <<fs, debug_copies, log_level, model_loaded>>
    /\ UNCHANGED pvars
    /\ UNCHANGED xvars

\* create_secure_temp_file: fd, temp_path = tempfile.mkstemp(suffix=extension, ...);
\* a failure is wrapped in SecurityError by the outer except
Mkstemp(r) ==
    /\ rq[r].pc = "mkstemp"
    /\ LET q == Stage(rq[r], "create")
       IN  \E t \in FreeTokens(fs) \cup {None} :
             IF t = None
             THEN /\ rq' = [rq EXCEPT ![r] =
                             Caught(q, Exc("SecurityError", 0, "none",
                                           "Failed to create temporary file"))]
                  /\ fs' = fs
             ELSE /\ rq' = [rq EXCEPT ![r] =
                             [q EXCEPT !.pc = "chmod", !.temp_path = t,
                                       !.created = @ + 1,
                                       !.foreign = @ \/ (fs[t].exists /\ fs[t].owner # r)]]
                  /\ fs' = [fs EXCEPT ![t] = mkstemp_file(fs, t, q.file_extension, r)]
    /\ UNCHANGED <<debug_copies, log_level, model_loaded>>
    /\ UNCHANGED pvars
    /\ UNCHANGED xvars

\* create_secure_temp_file: os.chmod(temp_path, 0o600)
Chmod(r) ==
    /\ rq[r].pc = "chmod"
    /\ \E outcome \in {"ok", "failed"} :
         IF outcome = "ok"
         THEN /\ fs' = [fs EXCEPT ![rq[r].temp_path] = chmod_600(@)]
              /\ rq' = [rq EXCEPT ![r].pc = "write"]
         ELSE /\ fs' = fs
              /\ rq' = [rq EXCEPT ![r].pc = "create_except"]
    /\ UNCHANGED <<debug_copies, log_level, model_loaded>>
    /\ UNCHANGED pvars
    /\ UNCHANGED xvars

\* create_secure_temp_file: with os.fdopen(fd, 'wb') as temp_file:
\* temp_file.write(file_content); return temp_path
WriteContent(r) ==
    /\ rq[r].pc = "write"
    /\ LET t == rq[r].temp_path
           other == fs[t].owner # r
       IN  \/ /\ fs' = [fs EXCEPT ![t].content = written_bytes(rq[r].file_content)]
              /\ rq' = [rq EXCEPT ![r] =
                          [@ EXCEPT !.pc = "debug", !.temp_file_path = t,
                                    !.foreign = @ \/ other]]
           \* the write or the close raises with k bytes stored
           \/ \E k \in 0..Len(rq[r].file_content) :
                 /\ fs' = [fs EXCEPT ![t].content = partial_bytes(rq[r].file_content, k)]
                 /\ rq' = [rq EXCEPT ![r] =
                             [@ EXCEPT !.pc = "create_except", !.foreign = @ \/ other]]
           \* os.fdopen raises
           \/ /\ fs' = fs
              /\ rq' = [rq EXCEPT ![r].pc = "create_except"]
    /\ UNCHANGED <<debug_copies, log_level, model_loaded>>
    /\ UNCHANGED pvars
    /\ UNCHANGED xvars

\* the inner except of create_secure_temp_file: try: os.unlink(temp_path);
\* except: pass; fault says whether os.unlink raises
create_cleanup(dir, t, fault) ==
    IF dir[t].exists /\ fault = "none" THEN unlink(dir, t) ELSE dir

\* create_secure_temp_file, except Exception: clean up, raise SecurityError
CreateCleanup(r) ==
    /\ rq[r].pc = "create_except"
    /\ \E fault \in {"none", "unlink"} :
         LET t == rq[r].temp_path
             dir == create_cleanup(fs, t, fault)
         IN  /\ fs' = dir
             /\ rq' = [rq EXCEPT ![r] =
                         Caught([@ EXCEPT
                                   !.removals = IF dir[t] # fs[t] THEN Append(@, "create") ELSE @,
                                   !.foreign = @ \/ (dir[t] # fs[t] /\ fs[t].owner # r)],
                                Exc("SecurityError", 0, "none",
                                    "Failed to create temporary file"))]
    /\ UNCHANGED <<debug_copies, log_level, model_loaded>>
    /\ UNCHANGED pvars
    /\ UNCHANGED xvars

\* the copy under /tmp/audio_debug: open(debug_file_path, 'wb') replaces one of
\* the same name
DebugFile(name, content) == [name |-> name, content |-> content, mode |-> DEFAULT_FILE_MODE]

save_debug_copy(copies, name, content) ==
    {c \in copies : c.name # name} \cup {DebugFile(name, content)}

\* if config.LOG_LEVEL == "DEBUG": os.makedirs(...); try: write the debug copy;
\* open(debug_file_path, 'wb') creates or truncates the copy before the write,
\* and a failure of open or write is logged and the handler goes on
DebugCopy(r) ==
    /\ rq[r].pc = "debug"
    /\ IF log_level = "DEBUG"
       THEN \/ /\ rq' = [rq EXCEPT ![r].pc = "stat"]
               /\ debug_copies' = save_debug_copy(debug_copies, rq[r].sanitized_filename,
                                                  rq[r].file_content)
            \* os.makedirs raises outside the inner try
            \/ /\ rq' = [rq EXCEPT ![r] =
                           Caught(@, Exc("OSError", 0, "none", "makedirs failed"))]
               /\ debug_copies' = debug_copies
            \* open raises
            \/ /\ rq' = [rq EXCEPT ![r].pc = "stat"]
               /\ debug_copies' = debug_copies
            \* the write or the close raises with k bytes stored
            \/ \E k \in 0..Len(rq[r].file_content) :
                  /\ rq' = [rq EXCEPT ![r].pc = "stat"]
                  /\ debug_copies' =
                        save_debug_copy(debug_copies, rq[r].sanitized_filename,
                                        partial_bytes(rq[r].file_content, k))
       ELSE /\ rq' = [rq EXCEPT ![r].pc = "stat"]
            /\ debug_copies' = debug_copies
    /\ UNCHANGED <<fs, log_level, model_loaded>>
    /\ UNCHANGED pvars
    /\ UNCHANGED xvars

\* file_stats = os.stat(temp_file_path) and the logged analysis
StatFile(r) ==
    /\ rq[r].pc = "stat"
    /\ \E outcome \in {"ok", "failed"} :
         rq' = [rq EXCEPT ![r] =
                  IF outcome = "ok"
                  THEN [@ EXCEPT !.pc = "transcribe"]
                  ELSE Caught(@, Exc("OSError", 0, "none", "stat failed"))]
    /\ UNCHANGED <<fs, debug_copies, log_level, model_loaded>>
    /\ UNCHANGED pvars
    /\ UNCHANGED xvars

\* result = model.transcribe(temp_file_path, ...); return {"transcript": ...}
Transcribe(r) ==
    /\ rq[r].pc = "transcribe"
    /\ LET q == Stage(rq[r], "transcribe")
       IN  \E outcome \in {"ok", "failed", "aborted"} :
             rq' = [rq EXCEPT ![r] =
                      IF outcome = "ok"
                      THEN [q EXCEPT !.pc = "finally", !.status = 200,
                                     !.detail = "transcript"]
                      ELSE IF outcome = "failed"
                      THEN Caught(q, Exc("RuntimeError", 0, "none", "transcription failed"))
                      ELSE Caught(q, Exc("KeyboardInterrupt", 0, "none", "aborted"))]
    /\ UNCHANGED <<fs, debug_copies, log_level, model_loaded>>
    /\ UNCHANGED pvars
    /\ UNCHANGED xvars

\* if temp_file_path:
needs_cleanup(q) == q.temp_file_path # None

\* finally: if temp_file_path: safe_cleanup_temp_file(temp_file_path)
Finally(r) ==
    /\ rq[r].pc = "finally"
    /\ LET q == rq[r]
           t == q.temp_file_path
       IN  IF needs_cleanup(q)
           THEN \E fault \in {"none", "chmod", "unlink"} :
                  LET dir == safe_cleanup_temp_file(fs, t, fault)
                      removed == fs[t].exists /\ ~dir[t].exists
                  IN  /\ fs' = dir
                      /\ rq' = [rq EXCEPT ![r] =
                                  [q EXCEPT !.pc = "done",
                                            !.removals = IF removed
                                                         THEN Append(@, "finally") ELSE @,
                                            !.foreign = @ \/ (removed /\ fs[t].owner # r)]]
           ELSE /\ fs' = fs
                /\ rq' = [rq EXCEPT ![r].pc = "done"]
    /\ UNCHANGED <<debug_copies, log_level, model_loaded>>
    /\ UNCHANGED pvars
    /\ UNCHANGED xvars

NextHandler ==
    \/ \E r \in DOMAIN rq : CheckModel(r)
    \/ \E r \in DOMAIN rq : Sanitize(r)
    \/ \E r \in DOMAIN rq : ValidateExtension(r)
    \/ \E r \in DOMAIN rq : ReadContent(r)
    \/ \E r \in DOMAIN rq : CheckSize(r)
    \/ \E r \in DOMAIN rq : CheckContent(r)
    \/ \E r \in DOMAIN rq : Mkstemp(r)
    \/ \E r \in DOMAIN rq : Chmod(r)
    \/ \E r \in DOMAIN rq : WriteContent(r)
    \/ \E r \in DOMAIN rq : CreateCleanup(r)
    \/ \E r \in DOMAIN rq : DebugCopy(r)
    \/ \E r \in DOMAIN rq : StatFile(r)
    \/ \E r \in DOMAIN rq : Transcribe(r)
    \/ \E r \in DOMAIN rq : Finally(r)

PureIdle ==
    /\ filename = <<>>
    /\ fpc = "idle"
    /\ san = NoResult
    /\ extres = NoResult
    /\ file_content = <<>>
    /\ expected_extension = <<>>
    /\ cpc = "idle"
    /\ verdict = FALSE

\* uploads: a 20-byte MP3 frame, a 24-byte RIFF/WAVE header, a RIFF header
\* without WAVE, a 2-byte stub, an MP3 stream one byte over the size limit
UploadMp3 == <<255, 251>> \o Repeat(0, MIN_CONTENT_LENGTH - 2)
UploadWav == MAGIC_RIFF \o <<0, 0, 0, 0>> \o BYTES_WAVE \o Repeat(0, 12)
UploadRiffOnly == MAGIC_RIFF \o <<0, 0, 0, 0, 88, 88, 88, 88>> \o Repeat(0, 12)
UploadStub == <<255, 251>>
UploadOversize == <<255, 251>> \o Repeat(0, MaxFileSize - 1)

\* an MP3 frame header followed by 'MZ' and '<script'
UploadScripted ==
    <<255, 251>> \o <<77, 90>> \o <<60, 115, 99, 114, 105, 112, 116>>
                 \o Repeat(0, MIN_CONTENT_LENGTH - 11)

UploadInputs ==
    {UploadMp3, UploadWav, UploadRiffOnly, UploadStub, UploadOversize, UploadScripted}

\* "clip.mp3", "note.wav", "x/clip.MP3", "../../etc/passwd", "a\b.mp3",
\* "clip.txt", "clip", ""
UploadNames ==
    { <<99, 108, 105, 112, 46, 109, 112, 51>>,
      <<110, 111, 116, 101, 46, 119, 97, 118>>,
      <<120, 47, 99, 108, 105, 112, 46, 77, 80, 51>>,
      <<46, 46, 47, 46, 46, 47, 101, 116, 99, 47, 112, 97, 115, 115, 119, 100>>,
      <<97, 92, 98, 46, 109, 112, 51>>,
      <<99, 108, 105, 112, 46, 116, 120, 116>>,
      <<99, 108, 105, 112>>,
      <<>> }

\* one request, any name and upload, either log level, the model loaded or not
InitHandler ==
    /\ PureIdle
    /\ ScanIdle
    /\ WhisperIdle
    /\ AgentIdle
    /\ ClientIdle
    /\ \E name \in UploadNames, upload \in UploadInputs :
          rq = [r \in {1} |-> NewRequest(name, upload)]
    /\ fs = EmptyDir
    /\ debug_copies = {}
    /\ log_level \in {"INFO", "DEBUG"}
    /\ model_loaded \in BOOLEAN

SpecHandler == InitHandler /\ [][NextHandler]_vars

\* concurrent requests that upload the same bytes under the same name
InitConcurrent ==
    /\ PureIdle
    /\ ScanIdle
    /\ WhisperIdle
    /\ AgentIdle
    /\ ClientIdle
    /\ \E name \in {<<99, 108, 105, 112, 46, 109, 112, 51>>},
          upload \in {UploadMp3, UploadStub} :
          rq = [r \in Requests |-> NewRequest(name, upload)]
    /\ fs = EmptyDir
    /\ debug_copies = {}
    /\ log_level = "INFO"
    /\ model_loaded = TRUE

SpecConcurrent == InitConcurrent /\ [][NextHandler]_vars

----------------------------------------------------------------------------
(* The scanner stage: detect_malware_patterns on a payload *)

\* pre line feeds, z NUL bytes, post line feeds
NulPayload(pre, z, post) == Repeat(LF, pre) \o Repeat(NUL, z) \o Repeat(LF, post)

\* three runs of 'A' separated by a line feed and a carriage return
RunPayload(a, r, b) == Repeat(65, a) \o <<LF>> \o Repeat(65, r) \o <<CR>> \o Repeat(65, b)

\* a pattern after o line feeds
PatternPayload(i, o) == Repeat(LF, o) \o malware_patterns[i].pattern \o Repeat(LF, 3)

ScanInputs ==
    {NulPayload(t[1], t[2], t[3]) :
        t \in { <<0, 0, 100>>, <<0, 60, 40>>, <<40, 60, 0>>, <<0, 100, 0>>,
                <<0, 512, 512>>, <<0, 513, 511>>, <<511, 513, 0>>, <<0, 600, 424>>,
                <<212, 600, 212>>, <<0, 1024, 0>>, <<0, 513, 0>>, <<0, 512, 0>>,
                <<500, 600, 0>>, <<600, 600, 0>>, <<0, 512, 600>>, <<0, 0, 0>> }}
    \cup {RunPayload(a, r, b) : a \in {0, 100, 801}, r \in {0, 800, 801}, b \in {0, 100, 801}}
    \cup {Repeat(65, n) : n \in {30, 800, 801, 1024, 1500}}
    \cup {RunPayload(300, 0, 801), RunPayload(223, 0, 801), RunPayload(222, 0, 801)}
    \cup {PatternPayload(i, o) :
             i \in 1..Len(malware_patterns),
             o \in {0, 7, 1013, 1018, 1020, 1022, 1023, 1030}}
    \cup { malware_patterns[14].pattern \o <<LF>> \o malware_patterns[1].pattern,
           <<255, 251>> \o Repeat(LF, 16) \o malware_patterns[1].pattern,
           malware_patterns[6].pattern \o Repeat(NUL, 600) }

\* what may follow the first 1024 bytes
ScanTails ==
    { <<>>, malware_patterns[1].pattern, Repeat(NUL, 600), Repeat(65, 900) }

\* a payload with the same first 1024 bytes as content (content itself when it
\* is shorter)
OtherPayload(content, tail) ==
    IF Len(content) >= WINDOW THEN Slice(content, 0, WINDOW) \o tail ELSE content

InitScan ==
    /\ PureIdle
    /\ HandlerIdle
    /\ WhisperIdle
    /\ AgentIdle
    /\ ClientIdle
    /\ scan_content \in ScanInputs
    /\ \E tail \in ScanTails : scan_other = OtherPayload(scan_content, tail)
    /\ scan_result = NotFlagged
    /\ scan_other_result = NotFlagged
    /\ scan_pc = "start"

DetectMalwarePatterns ==
    /\ scan_pc = "start"
    /\ scan_result' = detect_malware_patterns(scan_content)
    /\ scan_other_result' = detect_malware_patterns(scan_other)
    /\ scan_pc' = "done"
    /\ UNCHANGED <<scan_content, scan_other>>
    /\ UNCHANGED <<pvars, hvars, wrq, avars, crq>>

NextScan == DetectMalwarePatterns

SpecScan == InitScan /\ [][NextScan]_vars

----------------------------------------------------------------------------
(* The whisper service: POST /transcribe (src/whisper_service/app/main.py) *)

\* config.ALLOWED_EXTENSIONS of the whisper service
WHISPER_ALLOWED_EXTENSIONS == {EXT_MP3, EXT_WAV, EXT_WEBM, EXT_M4A}

NewWhisperRequest(name, upload) ==
    [pc |-> "start",
     filename |-> name,              \* file.filename
     upload |-> upload,              \* the bytes file.read() gives
     file_extension |-> <<>>,
     file_content |-> <<>>,
     temp_file |-> None,             \* the open NamedTemporaryFile
     temp_file_path |-> None,
     exc |-> "none",                 \* class of the exception that left the try block
     status |-> 0,                   \* status of the response, 0 while there is none
     detail |-> <<>>,                \* the parts of the response's detail
     created |-> 0]                  \* files created for this request

\* except Exception as e: raise HTTPException(500, f"Transcription failed: {str(e)}");
\* an exception that is no Exception leaves the handler
whisper_except(q, e, next) ==
    IF "Exception" \in Bases(e.type)
    THEN [q EXCEPT !.pc = next, !.exc = e.type, !.status = 500,
                   !.detail = <<"Transcription failed: ", e.text>>]
    ELSE [q EXCEPT !.pc = next, !.exc = e.type]

\* if not model: raise HTTPException(500, "Whisper model not loaded")
WhisperCheckModel(r) ==
    /\ wrq[r].pc = "start"
    /\ wrq' = [wrq EXCEPT ![r] =
                 IF model_loaded
                 THEN [@ EXCEPT !.pc = "extension"]
                 ELSE [@ EXCEPT !.pc = "done", !.exc = "HTTPException", !.status = 500,
                                !.detail = <<"Whisper model not loaded">>]]
    /\ UNCHANGED <<pvars, hvars, svars, avars, crq>>

\* file_extension = os.path.splitext(file.filename)[1].lower() and the test
\* against config.ALLOWED_EXTENSIONS, before the try block
WhisperValidateExtension(r) ==
    /\ wrq[r].pc = "extension"
    /\ LET file_extension == ExtensionOf(wrq[r].filename)
       IN  wrq' = [wrq EXCEPT ![r] =
                     IF file_extension \in WHISPER_ALLOWED_EXTENSIONS
                     THEN [@ EXCEPT !.pc = "read", !.file_extension = file_extension]
                     ELSE [@ EXCEPT !.pc = "done", !.file_extension = file_extension,
                                    !.exc = "HTTPException", !.status = 400,
                                    !.detail = <<"Unsupported file format: ", file_extension>>]]
    /\ UNCHANGED <<pvars, hvars, svars, avars, crq>>

\* file_content = await file.read()
WhisperRead(r) ==
    /\ wrq[r].pc = "read"
    /\ \E outcome \in {"ok", "failed", "cancelled"} :
         wrq' = [wrq EXCEPT ![r] =
                   IF outcome = "ok"
                   THEN [@ EXCEPT !.pc = "size", !.file_content = wrq[r].upload]
                   ELSE IF outcome = "failed"
                   THEN whisper_except(@, Exc("RuntimeError", 0, "none", "read failed"), "done")
                   ELSE whisper_except(@, Exc("CancelledError", 0, "none", ""), "done")]
    /\ UNCHANGED <<pvars, hvars, svars, avars, crq>>

\* if len(file_content) > max_size: raise HTTPException(413, ...) inside the
\* try, where 'except Exception' answers it with 500 and str(e)
WhisperCheckSize(r) ==
    /\ wrq[r].pc = "size"
    /\ LET detail == "File too large. Maximum size: "
                         \o ToString(MaxFileSize \div (1024 * 1024)) \o "MB"
       \* str(e) of the HTTPException: '413: <detail>' where the class defines
       \* __str__, the empty string where it does not; the release of the
       \* library decides
       IN  \E text \in {"413: " \o detail, ""} :
             wrq' = [wrq EXCEPT ![r] =
                       IF Len(@.file_content) > MaxFileSize
                       THEN whisper_except(@, Exc("HTTPException", 413, detail, text), "done")
                       ELSE [@ EXCEPT !.pc = "create"]]
    /\ UNCHANGED <<pvars, hvars, svars, avars, crq>>

\* tempfile.NamedTemporaryFile(delete=False, suffix=file_extension)
WhisperCreate(r) ==
    /\ wrq[r].pc = "create"
    /\ \E t \in FreeTokens(fs) \cup {None} :
         IF t = None
         THEN /\ wrq' = [wrq EXCEPT ![r] =
                           whisper_except(@, Exc("OSError", 0, "none", "no temporary file"), "done")]
              /\ fs' = fs
         ELSE /\ wrq' = [wrq EXCEPT ![r] =
                           [@ EXCEPT !.pc = "write", !.temp_file = t, !.created = @ + 1]]
              /\ fs' = [fs EXCEPT ![t] = mkstemp_file(fs, t, wrq[r].file_extension, r)]
    /\ UNCHANGED <<rq, debug_copies, log_level, model_loaded>>
    /\ UNCHANGED <<pvars, svars, avars, crq>>

\* temp_file.write(file_content); temp_file_path = temp_file.name; the with
\* block closes the file, which delete=False leaves in place
WhisperWrite(r) ==
    /\ wrq[r].pc = "write"
    /\ LET t == wrq[r].temp_file
       IN  \/ /\ fs' = [fs EXCEPT ![t].content = written_bytes(wrq[r].file_content)]
              /\ wrq' = [wrq EXCEPT ![r] =
                           [@ EXCEPT !.pc = "transcribe", !.temp_file_path = t]]
           \* the write or the close raises with k bytes stored
           \/ \E k \in 0..Len(wrq[r].file_content) :
                 /\ fs' = [fs EXCEPT ![t].content = partial_bytes(wrq[r].file_content, k)]
                 /\ wrq' = [wrq EXCEPT ![r] =
                              whisper_except(@, Exc("OSError", 0, "none",
                                                    "[Errno 28] No space left on device"),
                                             "done")]
    /\ UNCHANGED <<rq, debug_copies, log_level, model_loaded>>
    /\ UNCHANGED <<pvars, svars, avars, crq>>

\* result = model.transcribe(temp_file_path) inside the inner try
WhisperTranscribe(r) ==
    /\ wrq[r].pc = "transcribe"
    /\ \E outcome \in {"ok", "failed", "aborted"} :
         wrq' = [wrq EXCEPT ![r] =
                   IF outcome = "ok"
                   THEN [@ EXCEPT !.pc = "finally", !.status = 200,
                                  !.detail = <<"transcript">>]
                   ELSE IF outcome = "failed"
                   THEN whisper_except(@, Exc("RuntimeError", 0, "none", "transcription failed"),
                                       "finally")
                   ELSE whisper_except(@, Exc("KeyboardInterrupt", 0, "none", ""), "finally")]
    /\ UNCHANGED <<pvars, hvars, svars, avars, crq>>

\* finally: if os.path.exists(temp_file_path): os.unlink(temp_file_path); an
\* OSError of os.unlink replaces the return value or the exception in flight
\* and reaches the except clause of the outer try
WhisperFinally(r) ==
    /\ wrq[r].pc = "finally"
    /\ LET t == wrq[r].temp_file_path
       IN  \/ /\ fs' = IF fs[t].exists THEN unlink(fs, t) ELSE fs
              /\ wrq' = [wrq EXCEPT ![r].pc = "done"]
           \/ /\ fs[t].exists
              /\ fs' = fs
              /\ wrq' = [wrq EXCEPT ![r] =
                           whisper_except(@, Exc("OSError", 0, "none",
                                                 "[Errno 1] Operation not permitted"),
                                          "done")]
    /\ UNCHANGED <<rq, debug_copies, log_level, model_loaded>>
    /\ UNCHANGED <<pvars, svars, avars, crq>>

NextWhisper ==
    \/ \E r \in DOMAIN wrq : WhisperCheckModel(r)
    \/ \E r \in DOMAIN wrq : WhisperValidateExtension(r)
    \/ \E r \in DOMAIN wrq : WhisperRead(r)
    \/ \E r \in DOMAIN wrq : WhisperCheckSize(r)
    \/ \E r \in DOMAIN wrq : WhisperCreate(r)
    \/ \E r \in DOMAIN wrq : WhisperWrite(r)
    \/ \E r \in DOMAIN wrq : WhisperTranscribe(r)
    \/ \E r \in DOMAIN wrq : WhisperFinally(r)

InitWhisper ==
    /\ PureIdle
    /\ ScanIdle
    /\ AgentIdle
    /\ ClientIdle
    /\ rq = <<>>
    /\ debug_copies = {}
    /\ log_level = "INFO"
    /\ fs = EmptyDir
    /\ model_loaded \in BOOLEAN
    \* the upload names and "clip.\u00C9", "clip.MP3\u0130", "clip.\u03A9",
    \* "clip.\u0391\u03A3", "clip.\u1E9E"
    /\ \E name \in UploadNames \cup {<<99, 108, 105, 112, 46, 201>>,
                                      <<99, 108, 105, 112, 46, 77, 80, 51, 304>>,
                                      <<99, 108, 105, 112, 46, 937>>,
                                      <<99, 108, 105, 112, 46, 913, 931>>,
                                      <<99, 108, 105, 112, 46, 7838>>},
          upload \in UploadInputs :
          wrq = [r \in {1} |-> NewWhisperRequest(name, upload)]

SpecWhisper == InitWhisper /\ [][NextWhisper]_vars

----------------------------------------------------------------------------
(* The agent service: POST /soap/format_note                               *)
(* (src/agent_service/app/agents/soap_agent/router.py, service.py)         *)

MAX_TRANSCRIPT_LENGTH == 50000

\* a transcript, by what the service asks of it: whether strip() leaves
\* nothing, and its length
Transcript(blank, length) == [blank |-> blank, length |-> length]

\* transcripts the request model TranscriptInput lets through (10 to 50000
\* characters): blanks only, a sentence, the longest allowed
TranscriptInputs ==
    { Transcript(TRUE, 12), Transcript(FALSE, 40), Transcript(FALSE, MAX_TRANSCRIPT_LENGTH) }

AgentExc(type, message) == [type |-> type, message |-> message]

NoAgentExc == AgentExc("none", "")

\* the classes of core/exceptions.py, pydantic_ai's exceptions and asyncio's
\* CancelledError with their bases
AgentBases(type) ==
    CASE type \in {"SoapGenerationError", "ModelError", "ValidationError", "RetryExhaustedError"} ->
            {type, "AgentServiceException", "Exception", "BaseException"}
      [] type \in {"ModelRetry", "UnexpectedModelBehavior", "RuntimeError"} ->
            {type, "Exception", "BaseException"}
      [] type = "CancelledError" -> {"CancelledError", "BaseException"}

\* the except clauses around agent.run: ModelRetry becomes RetryExhaustedError,
\* any other Exception becomes SoapGenerationError
inner_except(e) ==
    IF "ModelRetry" \in AgentBases(e.type)
    THEN AgentExc("RetryExhaustedError", "Failed to generate valid SOAP note")
    ELSE IF "Exception" \in AgentBases(e.type)
    THEN AgentExc("SoapGenerationError", "AI model error")
    ELSE e

\* the except clauses of the outer try of format_transcript_to_soap:
\* ValidationError, SoapGenerationError and RetryExhaustedError are re-raised,
\* any other Exception becomes SoapGenerationError
outer_except(e) ==
    IF AgentBases(e.type) \cap {"ValidationError", "SoapGenerationError", "RetryExhaustedError"} # {}
    THEN e
    ELSE IF "Exception" \in AgentBases(e.type)
    THEN AgentExc("SoapGenerationError", "Unexpected error during SOAP generation")
    ELSE e

AgentResponse(status, message, type) == [status |-> status, message |-> message, type |-> type]

\* the except clauses of format_note, in their order; status 0 when the
\* exception leaves the handler
router_except(e) ==
    IF "ValidationError" \in AgentBases(e.type)
    THEN AgentResponse(400, e.message, "ValidationError")
    ELSE IF "RetryExhaustedError" \in AgentBases(e.type)
    THEN AgentResponse(503, "Service temporarily unavailable due to repeated failures",
                       "RetryExhaustedError")
    ELSE IF "ModelError" \in AgentBases(e.type)
    THEN AgentResponse(503, "AI service temporarily unavailable", "ModelError")
    ELSE IF "SoapGenerationError" \in AgentBases(e.type)
    THEN AgentResponse(500, "Failed to generate SOAP note", "SoapGenerationError")
    ELSE IF "Exception" \in AgentBases(e.type)
    THEN AgentResponse(500, "An unexpected error occurred", "InternalServerError")
    ELSE AgentResponse(0, "", "")

NewAgentRequest(transcript) ==
    [pc |-> "depends",
     transcript |-> transcript,
     raised |-> NoAgentExc,          \* the exception first raised inside the service
     exc |-> NoAgentExc,             \* the exception that left format_transcript_to_soap
     response |-> AgentResponse(0, "", "")]

\* an exception e raised in the outer try block of the service and what
\* becomes of it up to the response of the endpoint
AgentFailed(q, raised, e) ==
    LET left == outer_except(e)
    IN  [q EXCEPT !.pc = "done", !.raised = raised, !.exc = left,
                  !.response = router_except(left)]

\* get_soap_agent_service: the dependency of the endpoint builds a new
\* SoapAgentService, _agent None, for every request
AgentGetService(r) ==
    /\ arq[r].pc = "depends"
    /\ arq' = [arq EXCEPT ![r].pc = "start"]
    /\ agent_cached' = [agent_cached EXCEPT ![r] = FALSE]
    /\ UNCHANGED <<pvars, hvars, svars, wrq, crq>>

\* the input checks at the head of format_transcript_to_soap
AgentValidate(r) ==
    /\ arq[r].pc = "start"
    /\ LET q == arq[r]
       IN  arq' = [arq EXCEPT ![r] =
                     IF q.transcript.blank
                     THEN AgentFailed(q, AgentExc("ValidationError", "Transcript cannot be empty"),
                                         AgentExc("ValidationError", "Transcript cannot be empty"))
                     ELSE IF q.transcript.length > MAX_TRANSCRIPT_LENGTH
                     THEN AgentFailed(q, AgentExc("ValidationError", "Transcript too long"),
                                         AgentExc("ValidationError", "Transcript too long"))
                     ELSE [q EXCEPT !.pc = "get_agent"]]
    /\ UNCHANGED agent_cached
    /\ UNCHANGED <<pvars, hvars, svars, wrq, crq>>

\* agent = self._get_agent(): the agent of the request's service, built when
\* _agent is None; a failure of the construction is raised as ModelError,
\* before self._agent is bound (the model, the Agent) or after it (the
\* registration of the output validator)
AgentGetAgent(r) ==
    /\ arq[r].pc = "get_agent"
    /\ \E outcome \in IF agent_cached[r]
                      THEN {"cached"}
                      ELSE {"created", "failed", "failed_bound"} :
         /\ arq' = [arq EXCEPT ![r] =
                      IF outcome \in {"failed", "failed_bound"}
                      THEN AgentFailed(@, AgentExc("ModelError", "Failed to initialize AI model"),
                                          AgentExc("ModelError", "Failed to initialize AI model"))
                      ELSE [@ EXCEPT !.pc = "run"]]
         /\ agent_cached' = [agent_cached EXCEPT ![r] = @ \/ outcome # "failed"]
    /\ UNCHANGED <<pvars, hvars, svars, wrq, crq>>

\* result = await agent.run(prompt) in the inner try block
AgentRun(r) ==
    /\ arq[r].pc = "run"
    /\ \E outcome \in {"ok", "ModelRetry", "UnexpectedModelBehavior", "RuntimeError",
                       "CancelledError"} :
         arq' = [arq EXCEPT ![r] =
                   IF outcome = "ok"
                   THEN [@ EXCEPT !.pc = "done", !.response = AgentResponse(200, "", "")]
                   ELSE AgentFailed(@, AgentExc(outcome, "agent.run failed"),
                                       inner_except(AgentExc(outcome, "agent.run failed")))]
    /\ UNCHANGED agent_cached
    /\ UNCHANGED <<pvars, hvars, svars, wrq, crq>>

NextAgent ==
    \/ \E r \in DOMAIN arq : AgentGetService(r)
    \/ \E r \in DOMAIN arq : AgentValidate(r)
    \/ \E r \in DOMAIN arq : AgentGetAgent(r)
    \/ \E r \in DOMAIN arq : AgentRun(r)

InitAgent ==
    /\ PureIdle
    /\ HandlerIdle
    /\ ScanIdle
    /\ WhisperIdle
    /\ ClientIdle
    /\ agent_cached = [r \in Requests |-> FALSE]
    /\ arq \in [Requests -> {NewAgentRequest(t) : t \in TranscriptInputs}]

SpecAgent == InitAgent /\ [][NextAgent]_vars

----------------------------------------------------------------------------
(* The retrying HTTP client (src/agent_service/app/core/client.py)          *)

\* largest config.max_retries taken (the configuration allows 1 to 10)
MaxRetriesConfigured == 3

\* what one attempt of the wrapped transport gives: a response with a status,
\* its body read or still a stream, or an exception
ResponseOf(status, read) ==
    [kind |-> "response", status |-> status, type |-> "none", read |-> read]
ExceptionOf(type) == [kind |-> "exception", status |-> 0, type |-> type, read |-> FALSE]

\* AsyncTenacityTransport is built without a wrapped transport, so the
\* attempts go through httpx.AsyncHTTPTransport, whose responses are handed
\* over with the body not yet read
AttemptOutcomes ==
    {ResponseOf(s, FALSE) : s \in {200, 404, 429, 500, 501, 503}}
    \cup {ExceptionOf(t) : t \in {"ConnectError", "TimeoutException", "ReadError",
                                   "ConnectionError", "WriteError"}}

retryable_status_codes == {429, 500, 502, 503, 504}

\* should_retry_status(response)
should_retry_status(response) == response.status \in retryable_status_codes

\* validate_response(response): on a retryable status the warning is built
\* from response.text, which raises ResponseNotRead while the body is unread;
\* only then raise_for_status() raises HTTPStatusError; any other response is
\* left alone
validate_response(response) ==
    IF ~should_retry_status(response) THEN response
    ELSE IF ~response.read
    THEN [kind |-> "exception", status |-> 0, type |-> "ResponseNotRead", read |-> FALSE]
    ELSE [kind |-> "exception", status |-> response.status, type |-> "HTTPStatusError",
          read |-> TRUE]

\* retry=retry_if_exception_type((HTTPStatusError, ConnectError,
\* TimeoutException, ReadError, ConnectionError))
retry_if_exception_type(outcome) ==
    /\ outcome.kind = "exception"
    /\ outcome.type \in {"HTTPStatusError", "ConnectError", "TimeoutException",
                         "ReadError", "ConnectionError"}

\* stop=stop_after_attempt(config.max_retries)
stop_after_attempt(attempt_number, max_attempt_number) ==
    attempt_number >= max_attempt_number

NewClientRequest(max_retries) ==
    [pc |-> "sending",
     max_retries |-> max_retries,    \* config.max_retries
     attempts |-> <<>>,              \* what the wrapped transport gave, attempt by attempt
     result |-> ExceptionOf("none")] \* the response returned or the exception raised

\* one attempt of the transport: the wrapped transport is called, the response
\* is validated, and the retry configuration returns, re-raises or waits; an
\* exception the retry condition does not list is raised at once
ClientAttempt ==
    /\ crq # <<>>
    /\ crq[1].pc = "sending"
    /\ \E got \in AttemptOutcomes :
         LET q == crq[1]
             attempts == Append(q.attempts, got)
             outcome == IF got.kind = "response" THEN validate_response(got) ELSE got
         IN  crq' = [crq EXCEPT ![1] =
                       IF ~retry_if_exception_type(outcome)
                       THEN [q EXCEPT !.pc = IF outcome.kind = "response"
                                             THEN "returned" ELSE "raised",
                                      !.attempts = attempts, !.result = outcome]
                       ELSE IF stop_after_attempt(Len(attempts), q.max_retries)
                       THEN [q EXCEPT !.pc = "raised", !.attempts = attempts,
                                      !.result = outcome]
                       ELSE [q EXCEPT !.pc = "waiting", !.attempts = attempts]]
    /\ UNCHANGED <<pvars, hvars, svars, wrq, avars>>

\* the wait of wait_exponential is over
ClientWait ==
    /\ crq # <<>>
    /\ crq[1].pc = "waiting"
    /\ crq' = [crq EXCEPT ![1].pc = "sending"]
    /\ UNCHANGED <<pvars, hvars, svars, wrq, avars>>

NextClient ==
    \/ ClientAttempt
    \/ ClientWait

InitClient ==
    /\ PureIdle
    /\ HandlerIdle
    /\ ScanIdle
    /\ WhisperIdle
    /\ AgentIdle
    /\ \E n \in 1..MaxRetriesConfigured : crq = <<NewClientRequest(n)>>

SpecClient == InitClient /\ [][NextClient]_vars

\* every attempt ends (the client's timeouts) and every wait ends
SpecClientFair == SpecClient /\ WF_vars(NextClient)

----------------------------------------------------------------------------
(* Properties of sanitize_filename *)

\* the characters of [A-Za-z0-9._-]
SafeChars == (97..122) \cup (65..90) \cup (48..57) \cup {46, 95, 45}

OnlySafeChars(s) == \A i \in 1..Len(s) : s[i] \in SafeChars

HasChar(s, c) == \E i \in 1..Len(s) : s[i] = c

HasDotDot(s) == \E i \in 1..(Len(s) - 1) : s[i] = 46 /\ s[i + 1] = 46

\* '..', '/', '\' or NUL anywhere in the name
HasTraversalPattern(s) ==
    HasDotDot(s) \/ HasChar(s, 47) \/ HasChar(s, 92) \/ HasChar(s, 0)

\* non-empty, only [A-Za-z0-9._-], no leading '.', at most 255 long
WellFormedName(s) ==
    /\ Len(s) >= 1
    /\ OnlySafeChars(s)
    /\ s[1] # 46
    /\ Len(s) <= 255

Sanitized == fpc \in {"sanitized", "validated"}

\* C1: every filename that contains '..', '/', '\' or NUL anywhere is rejected
\* by sanitize_filename with PathTraversalError; no name is returned for it.
C1_TraversalRejected ==
    Sanitized /\ HasTraversalPattern(filename)
        => ~san.ok /\ san.exc = "PathTraversalError"

\* C2 as stated: every non-empty filename of only [A-Za-z0-9._-] that does not
\* start with '.' and is at most 255 long is accepted and returned unchanged.
C2_WellFormedAccepted ==
    Sanitized /\ WellFormedName(filename)
        => san.ok /\ san.value = filename

\* C2 amended: every non-empty filename of only [A-Za-z0-9._-] that does not
\* start with '.', contains no '..' and is at most 255 long is accepted and
\* returned unchanged.
C2_WellFormedNoDotDotAccepted ==
    Sanitized /\ WellFormedName(filename) /\ ~HasDotDot(filename)
        => san.ok /\ san.value = filename

\* a name of exactly 255 safe characters was accepted unchanged
C2_Witness ==
    /\ Sanitized
    /\ WellFormedName(filename)
    /\ ~HasDotDot(filename)
    /\ Len(filename) = 255
    /\ san.ok
    /\ san.value = filename

\* C3: every value sanitize_filename returns is non-empty, has only characters
\* of [A-Za-z0-9._-], does not start with '.', is at most 255 long and holds no
\* path separator, no control character and no '..'.
C3_ReturnedNameSafe ==
    Sanitized /\ san.ok
        => /\ WellFormedName(san.value)
           /\ ~HasChar(san.value, 47)
           /\ ~HasChar(san.value, 92)
           /\ \A i \in 1..Len(san.value) : san.value[i] >= 32 /\ san.value[i] # 127
           /\ ~HasDotDot(san.value)

\* a name was returned that is the input reduced to its last path component
C3_Witness ==
    /\ Sanitized
    /\ san.ok
    /\ san.value # filename
    /\ HasChar(filename, 47)

----------------------------------------------------------------------------
(* Properties of validate_file_extension *)

\* the suffix of a name from its last '.', empty when it has none
SuffixFromLastDot(s) ==
    IF ~HasChar(s, 46) THEN <<>>
    ELSE LET last == CHOOSE i \in 1..Len(s) :
                        s[i] = 46 /\ \A j \in (i + 1)..Len(s) : s[j] # 46
         IN  SubSeq(s, last, Len(s))

IsLowerCase(s) == \A i \in 1..Len(s) : ~(s[i] >= 65 /\ s[i] <= 90)

\* C10: validate_file_extension lower-cases the suffix of the sanitized name
\* from its last '.', accepts exactly when that is in the allow-set and then
\* returns it; a name without '.' is rejected as a missing extension, any
\* other suffix outside the allow-set as an unsupported one.
C10_ExtensionValidated ==
    fpc = "validated"
        => LET suffix == Lower(SuffixFromLastDot(san.value))
           IN  /\ extres.ok <=> suffix \in ALLOWED_EXTENSIONS
               /\ extres.ok =>
                    /\ extres.value = suffix
                    /\ extres.value \in ALLOWED_EXTENSIONS
                    /\ IsLowerCase(extres.value)
               /\ ~HasChar(san.value, 46) =>
                    /\ extres.exc = "InvalidFileError"
                    /\ extres.msg = "File must have an extension"
               /\ HasChar(san.value, 46) /\ suffix \notin ALLOWED_EXTENSIONS =>
                    /\ extres.exc = "InvalidFileError"
                    /\ extres.msg = "Unsupported file format"

\* an upper-case extension was accepted and returned in lower case
C10_Witness ==
    /\ fpc = "validated"
    /\ extres.ok
    /\ extres.value # SuffixFromLastDot(san.value)
    /\ extres.value = EXT_WAV

----------------------------------------------------------------------------
(* Properties of validate_audio_content *)

Validated == cpc = "done"

MatchesAt0(content, i) == StartsWith(content, AUDIO_MAGIC_NUMBERS[i].magic)

HasWaveAt8(content) == Len(content) >= 12 /\ SubSeq(content, 9, 12) = <<87, 65, 86, 69>>

StartsWithMp3(content) ==
    \/ StartsWith(content, <<255, 251>>)
    \/ StartsWith(content, <<255, 243>>)
    \/ StartsWith(content, <<255, 242>>)
    \/ StartsWith(content, <<73, 68, 51>>)

\* C4: every payload shorter than 20 bytes is rejected, whatever the expected
\* extension and whatever signature it begins with.
C4_ShortRejected ==
    Validated /\ Len(file_content) < 20 => verdict = FALSE

\* a 19-byte payload with an MP3 signature was rejected for '.mp3'
C4_Witness ==
    /\ Validated
    /\ Len(file_content) = 19
    /\ StartsWith(file_content, <<255, 251>>)
    /\ expected_extension = EXT_MP3
    /\ verdict = FALSE

\* C5: every payload that starts with 'RIFF' without 'WAVE' at offsets 8-11 is
\* rejected, for every expected extension.
C5_RiffWithoutWaveRejected ==
    Validated /\ StartsWith(file_content, <<82, 73, 70, 70>>) /\ ~HasWaveAt8(file_content)
        => verdict = FALSE

\* a RIFF payload of at least 20 bytes without WAVE was rejected for '.wav'
C5_Witness ==
    /\ Validated
    /\ Len(file_content) >= 20
    /\ StartsWith(file_content, <<82, 73, 70, 70>>)
    /\ ~HasWaveAt8(file_content)
    /\ expected_extension = EXT_WAV
    /\ verdict = FALSE

\* C6: a payload is accepted for extension E only if some table prefix occurs
\* at its offset 0 and that entry maps to E.
C6_AcceptedOnlyOnMatchingSignature ==
    Validated /\ verdict = TRUE
        => \E i \in 1..Len(AUDIO_MAGIC_NUMBERS) :
              /\ MatchesAt0(file_content, i)
              /\ AUDIO_MAGIC_NUMBERS[i].extension = expected_extension

\* an MP3 stream of at least 20 bytes was rejected under '.wav'
C6_Witness ==
    /\ Validated
    /\ Len(file_content) >= 20
    /\ StartsWith(file_content, <<255, 251>>)
    /\ expected_extension = EXT_WAV
    /\ verdict = FALSE

\* C7: a payload of at least 20 bytes with an MP3, OGG or FLAC prefix is
\* accepted for the matching extension, and one with RIFF and WAVE at offsets
\* 8-11 is accepted for '.wav'.
C7_WellFormedAudioAccepted ==
    Validated /\ Len(file_content) >= 20
        => /\ StartsWithMp3(file_content) /\ expected_extension = EXT_MP3
                => verdict = TRUE
           /\ StartsWith(file_content, <<79, 103, 103, 83>>) /\ expected_extension = EXT_OGG
                => verdict = TRUE
           /\ StartsWith(file_content, <<102, 76, 97, 67>>) /\ expected_extension = EXT_FLAC
                => verdict = TRUE
           /\ StartsWith(file_content, <<82, 73, 70, 70>>) /\ HasWaveAt8(file_content)
              /\ expected_extension = EXT_WAV
                => verdict = TRUE

\* a payload of exactly 20 bytes starting with 'ID3' was accepted for '.mp3'
C7_Witness ==
    /\ Validated
    /\ Len(file_content) = 20
    /\ StartsWith(file_content, <<73, 68, 51>>)
    /\ expected_extension = EXT_MP3
    /\ verdict = TRUE

\* C8: a payload with the Matroska/WebM prefix is accepted for '.webm' exactly
\* when it is longer than 32 bytes.
C8_WebmAcceptedIffLongerThan32 ==
    Validated /\ StartsWith(file_content, <<26, 69, 223, 163>>)
      /\ expected_extension = EXT_WEBM
        => (verdict = TRUE <=> Len(file_content) > 32)

\* a 32-byte payload with the WebM prefix was rejected for '.webm'
C8_Witness ==
    /\ Validated
    /\ Len(file_content) = 32
    /\ StartsWith(file_content, <<26, 69, 223, 163>>)
    /\ expected_extension = EXT_WEBM
    /\ verdict = FALSE

----------------------------------------------------------------------------
(* Properties of the temporary file's life in transcribe_audio *)

\* the file request r created still exists
OwnFileExists(r) ==
    \E t \in Tokens : fs[t].exists /\ fs[t].owner = r

\* C11: for every request in which create_secure_temp_file returned a path,
\* the file at that path no longer exists once the handler has exited, on
\* every exit path (success, failure before or in the transcription, abort).
\* It fails when os.chmod or os.unlink of safe_cleanup_temp_file raises.
C11_TempFileGoneAtExit ==
    \A r \in DOMAIN rq :
        rq[r].pc = "done" /\ rq[r].temp_file_path # None
            => ~fs[rq[r].temp_file_path].exists /\ ~OwnFileExists(r)

\* C12: when create_secure_temp_file fails after the file was allocated, no
\* file created by that call exists once the caller sees the SecurityError.
\* It fails when the os.unlink of the inner except raises.
C12_FailedCreateLeavesNoFile ==
    \A r \in DOMAIN rq :
        rq[r].exc = "SecurityError" /\ rq[r].created > 0
            => ~OwnFileExists(r)

\* C13: per request at most one temporary file is created and every created
\* file is removed exactly once: inside create_secure_temp_file when the
\* creation fails midway (temp_file_path stays None and the finally block
\* removes nothing), otherwise by the finally block alone.
\* It fails when a removal raises: the file is then removed by no one.
C13_CreatedOnceRemovedOnce ==
    \A r \in DOMAIN rq :
        /\ rq[r].created <= 1
        /\ Len(rq[r].removals) <= rq[r].created
        /\ rq[r].pc = "done" =>
              /\ Len(rq[r].removals) = rq[r].created
              /\ rq[r].created = 1 /\ rq[r].temp_file_path = None
                    => rq[r].removals = <<"create">>
              /\ rq[r].temp_file_path # None
                    => rq[r].removals = <<"finally">>

\* C14: no temporary file holds payload bytes while group or others may access
\* it: whenever content has been written the mode is 0600.
C14_NoContentWhileReadableByOthers ==
    \A t \in Tokens :
        fs[t].exists /\ fs[t].content # <<>>
            => fs[t].mode = 384 /\ fs[t].mode % 64 = 0

\* a temporary file holds the whole payload
C14_Witness ==
    \E r \in DOMAIN rq :
        /\ rq[r].temp_file_path # None
        /\ fs[rq[r].temp_file_path].exists
        /\ fs[rq[r].temp_file_path].content = rq[r].upload
        /\ Len(rq[r].upload) >= 20

\* request r holds a temporary path: allocated and not yet removed
HoldsPath(r) == rq[r].temp_path # None /\ rq[r].removals = <<>>

\* C15: two requests in flight never hold the same temporary path, even with
\* the same payload and extension, and no request writes to or removes a file
\* another request created.
C15_PathsIsolated ==
    /\ \A r1, r2 \in DOMAIN rq :
          r1 # r2 /\ HoldsPath(r1) /\ HoldsPath(r2)
              => rq[r1].temp_path # rq[r2].temp_path
    /\ \A r \in DOMAIN rq : ~rq[r].foreign
    /\ \A r \in DOMAIN rq :
          HoldsPath(r) => fs[rq[r].temp_path].exists /\ fs[rq[r].temp_path].owner = r

\* two requests with the same payload and extension hold their files at once
C15_Witness ==
    \E r1, r2 \in DOMAIN rq :
        /\ r1 # r2
        /\ rq[r1].upload = rq[r2].upload
        /\ rq[r1].file_extension = rq[r2].file_extension
        /\ rq[r1].pc = "transcribe"
        /\ rq[r2].pc = "transcribe"
        /\ fs[rq[r1].temp_file_path].content = rq[r1].upload
        /\ fs[rq[r2].temp_file_path].content = rq[r2].upload

\* C16: once create_secure_temp_file(P, E) has returned a path, the file at
\* that path holds exactly the bytes P until the cleanup, and the path ends
\* with E.
C16_RoundTrip ==
    \A r \in DOMAIN rq :
        rq[r].pc \in {"debug", "stat", "transcribe"}
            => /\ rq[r].temp_file_path # None
               /\ fs[rq[r].temp_file_path].exists
               /\ fs[rq[r].temp_file_path].content = rq[r].upload
               /\ fs[rq[r].temp_file_path].suffix = rq[r].file_extension

\* a 24-byte RIFF/WAVE payload is on disk under a '.wav' path
C16_Witness ==
    \E r \in DOMAIN rq :
        /\ rq[r].pc = "transcribe"
        /\ Len(rq[r].upload) = 24
        /\ fs[rq[r].temp_file_path].content = rq[r].upload
        /\ fs[rq[r].temp_file_path].suffix = <<46, 119, 97, 118>>

----------------------------------------------------------------------------
(* Properties of the responses of transcribe_audio *)

\* C17: every request rejected for path traversal, for a missing or
\* unsupported extension or for content that does not match the expected
\* format is answered with status 400.
C17_RejectionsAnswered400 ==
    \A r \in DOMAIN rq :
        rq[r].pc = "done" /\ rq[r].reject \in {"sanitize", "extension", "content"}
            => rq[r].status = 400

\* C18: a request whose payload is larger than MAX_FILE_SIZE is answered with
\* status 413 and no temporary file is created for it.
C18_OversizeAnswered413 ==
    \A r \in DOMAIN rq :
        rq[r].pc = "done" /\ rq[r].reject = "size"
            => rq[r].status = 413 /\ rq[r].created = 0

\* the stages in their order
StageOrder == <<"sanitize", "extension", "size", "content", "create", "transcribe">>

IsPrefix(s, t) == Len(s) <= Len(t) /\ s = SubSeq(t, 1, Len(s))

Ran(r, stage) == \E i \in 1..Len(rq[r].stages) : rq[r].stages[i] = stage

\* C19: the stages run in the order sanitize, extension, size, content, create,
\* transcribe; the transcription runs only after the four validations
\* accepted; after a rejection no later stage runs and no file is created.
C19_StagesInOrderRejectionTerminal ==
    \A r \in DOMAIN rq :
        /\ IsPrefix(rq[r].stages, StageOrder)
        /\ Ran(r, "create") \/ Ran(r, "transcribe") =>
              /\ rq[r].reject = "none"
              /\ sanitize_filename(rq[r].filename).ok
              /\ rq[r].file_extension \in ALLOWED_EXTENSIONS
              /\ Len(rq[r].upload) <= MaxFileSize
              /\ validate_audio_content(rq[r].upload, rq[r].file_extension)
        /\ rq[r].reject # "none" =>
              /\ rq[r].stages[Len(rq[r].stages)] = rq[r].reject
              /\ rq[r].created = 0
              /\ rq[r].pc \in {"finally", "done"}

\* a request was rejected by the content stage and has left the handler
C19_Witness ==
    \E r \in DOMAIN rq :
        /\ rq[r].pc = "done"
        /\ rq[r].reject = "content"
        /\ rq[r].stages = <<"sanitize", "extension", "size", "content">>

\* the strings get_generic_error_message can return
FixedMessages ==
    { "The uploaded file format is not supported or contains invalid content",
      "File size exceeds the maximum allowed limit",
      "Audio processing could not be completed",
      "A server error occurred while processing your request",
      "The filename contains invalid characters",
      "The uploaded file contains suspicious content",
      "The file extension is not supported",
      "The file content does not match the expected format",
      "The request timed out while processing",
      "The service quota has been exceeded",
      "An error occurred while processing your request. Please try again with a valid audio file." }

\* C20: the detail of every error response of the endpoint is one of the
\* fixed strings of get_generic_error_message.
C20_ErrorDetailsAreFixedStrings ==
    \A r \in DOMAIN rq :
        rq[r].status >= 400 => rq[r].detail \in FixedMessages

\* a failed transcription was answered with the fixed processing message
C20_Witness ==
    \E r \in DOMAIN rq :
        /\ rq[r].pc = "done"
        /\ rq[r].exc = "RuntimeError"
        /\ rq[r].status = 500
        /\ rq[r].detail = "Audio processing could not be completed"

----------------------------------------------------------------------------
(* Properties of what transcribe_audio leaves on the filesystem *)

\* C21: after the handler has exited, by any path and under any LOG_LEVEL, no
\* file holding the upload's bytes remains: neither the temporary file nor a
\* file under /tmp/audio_debug.
C21_UploadNeverPersisted ==
    \A r \in DOMAIN rq :
        rq[r].pc = "done" =>
            /\ \A t \in Tokens : ~(fs[t].exists /\ fs[t].content = rq[r].upload)
            /\ \A c \in debug_copies : c.content # rq[r].upload

----------------------------------------------------------------------------
(* Properties of the table AUDIO_MAGIC_NUMBERS *)

IsPrefixOf(a, b) == Len(a) <= Len(b) /\ SubSeq(b, 1, Len(a)) = a

\* the entries whose prefix stands at offset 0 of the payload
MatchingEntries(content) ==
    {j \in 1..Len(AUDIO_MAGIC_NUMBERS) :
        IsPrefixOf(AUDIO_MAGIC_NUMBERS[j].magic, content)}

RECURSIVE MagicLoopDescending(_, _, _)
\* the loop of validate_audio_content taken over the table from its last entry
\* to its first
MagicLoopDescending(content, expected, i) ==
    IF i < 1 THEN "fallthrough"
    ELSE LET magic == AUDIO_MAGIC_NUMBERS[i].magic
             extension == AUDIO_MAGIC_NUMBERS[i].extension
         IN  IF IsPrefixOf(magic, content)
             THEN IF magic = MAGIC_RIFF /\ expected = EXT_WAV
                     THEN (IF Len(content) > 12 /\ SubSeq(content, 9, 12) = BYTES_WAVE
                              THEN "true" ELSE "false")
                  ELSE IF IsPrefixOf(<<0, 0, 0>>, magic) /\ expected \in {EXT_M4A, EXT_MP4}
                     THEN (IF Contains(BYTES_FTYP, Slice(content, 0, 32)) /\ extension = expected
                              THEN "true" ELSE "false")
                  ELSE IF magic = MAGIC_WEBM /\ expected = EXT_WEBM
                     THEN (IF Len(content) > 32 THEN "true" ELSE "false")
                  ELSE IF extension = expected THEN "true"
                  ELSE MagicLoopDescending(content, expected, i - 1)
             ELSE MagicLoopDescending(content, expected, i - 1)

\* C26: no prefix of AUDIO_MAGIC_NUMBERS is a prefix of another, at most one
\* entry matches a payload at offset 0, and the verdict of
\* validate_audio_content is the one reached by iterating the table in the
\* opposite order.
C26_TablePrefixFree ==
    /\ \A i, j \in 1..Len(AUDIO_MAGIC_NUMBERS) :
          i # j => ~IsPrefixOf(AUDIO_MAGIC_NUMBERS[i].magic, AUDIO_MAGIC_NUMBERS[j].magic)
    /\ Cardinality(MatchingEntries(file_content)) <= 1
    /\ cpc = "done" =>
          verdict = (/\ Len(file_content) >= 20
                     /\ MagicLoopDescending(file_content, expected_extension,
                                            Len(AUDIO_MAGIC_NUMBERS)) = "true")

\* a payload was validated whose only matching entry is 'RIFF'
C26_Witness ==
    /\ cpc = "done"
    /\ MatchingEntries(file_content) = {5}
    /\ expected_extension = EXT_WAV
    /\ verdict = TRUE

----------------------------------------------------------------------------
(* Properties of detect_malware_patterns *)

\* the number of inspected bytes: min(len, 1024)
InspectedLength(content) == IF Len(content) < 1024 THEN Len(content) ELSE 1024

NulsInspected(content) ==
    Cardinality({i \in 1..InspectedLength(content) : content[i] = 0})

\* among the inspected bytes there are more than n in a row without LF or CR
HasRunLongerThan(content, n) ==
    \E i \in 1..(InspectedLength(content) - n) :
        \A k \in i..(i + n) : content[k] \notin {10, 13}

\* p stands at some offset, wholly among the inspected bytes
OccursInspected(p, content) ==
    \E o \in 0..(InspectedLength(content) - Len(p)) :
        \A k \in 1..Len(p) : content[o + k] = p[k]

Scanned == scan_pc = "done"

\* C22: whenever more than half of the inspected bytes (the first
\* min(len, 1024)) are NUL, detect_malware_patterns answers suspicious.
C22_NulRatioFlagged ==
    Scanned /\ 2 * NulsInspected(scan_content) > InspectedLength(scan_content)
        => scan_result.suspicious

\* C23: two payloads with the same first 1024 bytes (equal when shorter) get
\* the same (suspicious, reason).
C23_OnlyWindowInspected ==
    Scanned /\ SubSeq(scan_content, 1, InspectedLength(scan_content))
                 = SubSeq(scan_other, 1, InspectedLength(scan_other))
            /\ (Len(scan_content) < 1024 => scan_other = scan_content)
        => scan_result = scan_other_result

\* an unflagged payload of 1024 bytes and the same payload followed by 'MZ'
C23_Witness ==
    /\ Scanned
    /\ Len(scan_content) = 1024
    /\ scan_other = scan_content \o <<77, 90>>
    /\ ~scan_result.suspicious
    /\ ~scan_other_result.suspicious

\* the reasons the long-line rule can give
LongLineReasons ==
    {"Extremely long line: " \o ToString(n) \o " bytes" : n \in 0..1024}

\* C24: a run of more than 800 inspected bytes without LF or CR, wherever it
\* lies, makes the answer suspicious; without such a run the long-line rule
\* does not flag.
C24_LongRunFlagged ==
    Scanned =>
        /\ HasRunLongerThan(scan_content, 800) => scan_result.suspicious
        /\ ~HasRunLongerThan(scan_content, 800) => scan_result.reason \notin LongLineReasons

\* 801 bytes after the last line break are flagged by the long-line rule
C24_Witness ==
    /\ Scanned
    /\ Len(scan_content) = 903
    /\ scan_content[102] = 13
    /\ HasRunLongerThan(scan_content, 800)
    /\ scan_result.reason = "Extremely long line: 801 bytes"

\* the patterns: MZ, 7F 'ELF', CA FE BA BE, '#!/bin/', '#!/usr/bin/',
\* '<script', '<?php', 'PK' 03 04, 'Rar!', 1F 8B, 'eval(', 'system(', 'exec('
ListedPatterns ==
    { <<77, 90>>, <<127, 69, 76, 70>>, <<202, 254, 186, 190>>,
      <<35, 33, 47, 98, 105, 110, 47>>,
      <<35, 33, 47, 117, 115, 114, 47, 98, 105, 110, 47>>,
      <<60, 115, 99, 114, 105, 112, 116>>, <<60, 63, 112, 104, 112>>,
      <<80, 75, 3, 4>>, <<82, 97, 114, 33>>, <<31, 139>>,
      <<101, 118, 97, 108, 40>>, <<115, 121, 115, 116, 101, 109, 40>>,
      <<101, 120, 101, 99, 40>> }

\* 'python' and 'shell_exec', which the list of the code holds as well
FurtherPatterns ==
    { <<112, 121, 116, 104, 111, 110>>,
      <<115, 104, 101, 108, 108, 95, 101, 120, 101, 99>> }

\* C25: a listed pattern at any offset wholly inside the first 1024 bytes gives
\* (true, reason) with a non-empty reason, and (false, None) is given only
\* when no pattern, NUL-count or long-run rule fired.
C25_PatternsFlagged ==
    Scanned =>
        /\ (\E p \in ListedPatterns : OccursInspected(p, scan_content))
              => /\ scan_result.suspicious
                 /\ ~scan_result.none
                 /\ scan_result.reason # ""
        /\ ~scan_result.suspicious
              => /\ scan_result.none
                 /\ \A p \in ListedPatterns \cup FurtherPatterns :
                       ~OccursInspected(p, scan_content)
                 /\ NulsInspected(scan_content) <= 512
                 /\ ~HasRunLongerThan(scan_content, 800)

\* 'MZ' in the last two bytes of the first 1024 is found
C25_Witness ==
    /\ Scanned
    /\ Len(scan_content) > 1024
    /\ scan_content[1023] = 77
    /\ scan_content[1024] = 90
    /\ scan_result.suspicious
    /\ scan_result.reason = "PE executable header detected"

----------------------------------------------------------------------------
(* The scanner and the endpoint *)

MalwareMessage == "The uploaded file contains suspicious content"

\* the name, extension, size and signature of request r pass the four checks
PassesValidation(r) ==
    /\ sanitize_filename(rq[r].filename).ok
    /\ validate_file_extension(sanitize_filename(rq[r].filename).value,
                               ALLOWED_EXTENSIONS).ok
    /\ Len(rq[r].upload) <= MaxFileSize
    /\ validate_audio_content(
          rq[r].upload,
          validate_file_extension(sanitize_filename(rq[r].filename).value,
                                  ALLOWED_EXTENSIONS).value)

\* C27: detect_malware_patterns has no part in the outcome of a request: no
\* request ends with the 'malware_detected' message, no request is rejected
\* after it passed the four checks, and a request that passed them and met no
\* fault is answered 200 after the transcription ran, also when the scanner
\* would flag its payload.
C27_ScannerNotInPipeline ==
    \A r \in DOMAIN rq :
        /\ rq[r].detail # MalwareMessage
        /\ PassesValidation(r) => rq[r].reject = "none"
        /\ rq[r].pc = "done" /\ PassesValidation(r) /\ model_loaded
              /\ rq[r].exc = "none"
              => rq[r].status = 200 /\ Ran(r, "transcribe")

\* a payload the scanner flags was transcribed and answered 200
C27_Witness ==
    \E r \in DOMAIN rq :
        /\ rq[r].pc = "done"
        /\ detect_malware_patterns(rq[r].upload).suspicious
        /\ OccursInspected(<<77, 90>>, rq[r].upload)
        /\ Ran(r, "transcribe")
        /\ rq[r].status = 200

----------------------------------------------------------------------------
(* Properties of the whisper service's temporary file *)

\* C28: in the whisper service, once the temporary file has been created it
\* no longer exists when the handler has exited: after a failed write, after
\* a failed transcription and after success.
C28_WhisperTempFileGone ==
    \A r \in DOMAIN wrq :
        wrq[r].pc = "done" /\ wrq[r].created > 0
            => \A t \in Tokens : ~(fs[t].exists /\ fs[t].owner = r)

----------------------------------------------------------------------------
(* Properties of the responses of POST /soap/format_note *)

\* C29: a request in which _get_agent raised ModelError is answered 503 'AI
\* service temporarily unavailable', and a request that ended with
\* RetryExhaustedError is answered 503.
C29_AgentFailuresAnswered503 ==
    \A r \in DOMAIN arq :
        arq[r].pc = "done" =>
            /\ arq[r].raised.type = "ModelError"
                  => /\ arq[r].response.status = 503
                     /\ arq[r].response.message = "AI service temporarily unavailable"
            /\ arq[r].exc.type = "RetryExhaustedError"
                  => arq[r].response.status = 503

----------------------------------------------------------------------------
(* Properties of the retrying HTTP client *)

\* the failures after which an attempt may be repeated: a response with status
\* 429 or 5xx, a connection error, a timeout
RetryableFailure(got) ==
    \/ got.kind = "response" /\ (got.status = 429 \/ (got.status >= 500 /\ got.status <= 599))
    \/ got.kind = "exception"
          /\ got.type \in {"ConnectError", "ConnectionError", "ReadError", "TimeoutException"}

ClientDone == crq # <<>> /\ crq[1].pc \in {"returned", "raised"}

ClientBounded ==
    \A c \in DOMAIN crq :
        LET q == crq[c]
            n == Len(q.attempts)
        IN  /\ n <= q.max_retries
            /\ q.pc = "sending" => n < q.max_retries
            /\ \A i \in 1..n :
                  /\ (i < n \/ q.pc \in {"waiting", "sending"}) => RetryableFailure(q.attempts[i])
                  /\ (q.attempts[i].kind = "response" /\ ~RetryableFailure(q.attempts[i]))
                        => i = n /\ q.pc = "returned" /\ q.result = q.attempts[i]
            /\ (q.pc = "raised" /\ n = q.max_retries) =>
                  /\ q.result.kind = "exception"
                  /\ IF q.attempts[n].kind = "response"
                     THEN q.result.type = "HTTPStatusError"
                          /\ q.result.status = q.attempts[n].status
                     ELSE q.result = q.attempts[n]

\* C30: a request through the retrying client ends after at most
\* config.max_retries attempts; an attempt is followed by another only after
\* a response with status 429 or 5xx, a connection error or a timeout; a
\* response with any other status is returned at once; and when the last
\* allowed attempt fails its error is raised and nothing more is sent.
\* It fails for a last attempt answered 429 or 5xx: the error raised is
\* ResponseNotRead, not the HTTP status error of that response.
C30_RetriesBoundedAndTerminate ==
    /\ []ClientBounded
    /\ <>[]ClientDone

====
